---------------------------- MODULE Spec2Model ----------------------------
(***************************************************************************)
(* A model of the ShortStory plugin: the .tos text parser                  *)
(* (ShortStoryParser.cpp), the duration calculator, the story cache and    *)
(* the playback state machine (ShortStorySubsystem.cpp).                   *)
(*                                                                         *)
(* Representation.                                                         *)
(*  - An FString is a sequence of one-character strings.                   *)
(*  - A story text is the sequence of its physical lines.                  *)
(*  - A float number of seconds is an integer number of hundredths of a    *)
(*    second (0.2f is 20); LineBreakPercent is an integer percentage.      *)
(***************************************************************************)
EXTENDS Integers, Sequences, FiniteSets, TLC

VARIABLES
    \* ---- timing configuration (ShortStorySubsystem.h:356-368)
    SpeedTimings,
    PauseDurations,
    ScreenTransitionPauseSeconds,
    FadeWindowSeconds,
    LineBreakPercent,
    \* ---- story cache (ShortStorySubsystem.h:346)
    CachedStories,
    \* ---- playback state (ShortStorySubsystem.h:378, 400-442)
    CurrentStory,
    CurrentScreenIndex,
    CurrentLineIndex,
    LineElapsedTime,
    LineDuration,
    PauseElapsedTime,
    PauseDuration,
    ScreenElapsedTime,
    TransitionElapsedTime,
    LineStartTimes,
    bIsPlaying,
    bIsPaused,
    CurrentState,
    ProcessedTimedEventIndices,
    TickerHandle,
    \* ---- the last public call and what it returned / logged
    lastCall,
    \* ---- evaluation of the pure functions (parser, duration calculator)
    fnIn,
    fnOut,
    \* ---- the lock of the story cache (ShortStorySubsystem.h:349): the thread
    \* that holds it, or "free"
    CacheMutex,
    \* ---- the threads that call the cache functions: each one's position in
    \* the function it runs, and that function's arguments and locals
    threads

playerVars == <<CurrentStory, CurrentScreenIndex, CurrentLineIndex,
                LineElapsedTime, LineDuration, PauseElapsedTime, PauseDuration,
                ScreenElapsedTime, TransitionElapsedTime, LineStartTimes,
                bIsPlaying, bIsPaused, CurrentState,
                ProcessedTimedEventIndices, TickerHandle>>

configVars == <<SpeedTimings, PauseDurations, ScreenTransitionPauseSeconds,
                FadeWindowSeconds, LineBreakPercent>>

threadVars == <<CacheMutex, threads>>

vars ==
    <<configVars, CachedStories, playerVars, lastCall, fnIn, fnOut, threadVars>>

-----------------------------------------------------------------------------
(***************************************************************************)
(* FString helpers                                                         *)
(***************************************************************************)

Uppers == <<"A","B","C","D","E","F","G","H","I","J","K","L","M",
            "N","O","P","Q","R","S","T","U","V","W","X","Y","Z">>
Lowers == <<"a","b","c","d","e","f","g","h","i","j","k","l","m",
            "n","o","p","q","r","s","t","u","v","w","x","y","z">>

IsWhitespace(c) == c \in {" ", "\t"}

ToLowerChar(c) ==
    IF \E i \in 1..Len(Uppers) : Uppers[i] = c
    THEN Lowers[CHOOSE i \in 1..Len(Uppers) : Uppers[i] = c]
    ELSE c

ToLower(s) == [i \in 1..Len(s) |-> ToLowerChar(s[i])]

EqualsIgnoreCase(a, b) == ToLower(a) = ToLower(b)

RECURSIVE TrimStart(_)
TrimStart(s) ==
    IF s # <<>> /\ IsWhitespace(Head(s)) THEN TrimStart(Tail(s)) ELSE s

RECURSIVE TrimEnd(_)
TrimEnd(s) ==
    IF s # <<>> /\ IsWhitespace(s[Len(s)])
    THEN TrimEnd(SubSeq(s, 1, Len(s) - 1))
    ELSE s

TrimStartAndEnd(s) == TrimEnd(TrimStart(s))

\* FString::StartsWith / EndsWith (ESearchCase::IgnoreCase is the default)
StartsWith(s, p) ==
    Len(p) <= Len(s) /\ ToLower(SubSeq(s, 1, Len(p))) = ToLower(p)

EndsWith(s, p) ==
    Len(p) <= Len(s)
    /\ ToLower(SubSeq(s, Len(s) - Len(p) + 1, Len(s))) = ToLower(p)

\* FString::Left(n) and FString::Mid(start) with a 0-based start
\* Left, had it dropped the last character
LeftButOne(s, n) == SubSeq(s, 1, n - 1)

Left(s, n) == SubSeq(s, 1, n)
Mid(s, start) == SubSeq(s, start + 1, Len(s))

\* first 1-based position >= from where d occurs in s, 0 when there is none
RECURSIVE Strstr(_, _, _)
Strstr(s, d, from) ==
    IF from + Len(d) - 1 > Len(s) THEN 0
    ELSE IF SubSeq(s, from, from + Len(d) - 1) = d THEN from
    ELSE Strstr(s, d, from + 1)

Contains(s, d) == Strstr(ToLower(s), ToLower(d), 1) # 0

\* FString::Split: at the first occurrence of d
SplitFound(s, d) == Strstr(s, d, 1) # 0
SplitLeft(s, d) == SubSeq(s, 1, Strstr(s, d, 1) - 1)
SplitRight(s, d) == SubSeq(s, Strstr(s, d, 1) + Len(d), Len(s))

\* FString::ParseIntoArray(Out, Delim, bCullEmpty)
RECURSIVE ParseFrom(_, _, _)
ParseFrom(s, d, cull) ==
    LET at == Strstr(s, d, 1) IN
    IF at = 0
    THEN IF ~cull \/ s # <<>> THEN <<s>> ELSE <<>>
    ELSE LET piece == SubSeq(s, 1, at - 1)
             rest  == SubSeq(s, at + Len(d), Len(s))
         IN  (IF ~cull \/ piece # <<>> THEN <<piece>> ELSE <<>>)
                 \o ParseFrom(rest, d, cull)

ParseIntoArray(s, d, cull) == IF s = <<>> THEN <<>> ELSE ParseFrom(s, d, cull)

\* FString::ParseIntoArrayLines: the text is held as its physical lines, and
\* the empty ones are culled
ParseIntoArrayLines(text) == SelectSeq(text, LAMBDA l : l # <<>>)

Digits == <<"0","1","2","3","4","5","6","7","8","9">>
IsDigit(c) == \E i \in 1..10 : Digits[i] = c
DigitVal(c) == (CHOOSE i \in 1..10 : Digits[i] = c) - 1

RECURSIVE AtoiAcc(_, _)
AtoiAcc(s, acc) ==
    IF s # <<>> /\ IsDigit(Head(s))
    THEN AtoiAcc(Tail(s), 10 * acc + DigitVal(Head(s)))
    ELSE acc

RECURSIVE SkipDigits(_)
SkipDigits(s) == IF s # <<>> /\ IsDigit(Head(s)) THEN SkipDigits(Tail(s)) ELSE s

\* FCString::Atof in hundredths: leading blanks, an optional sign, digits, an
\* optional fraction of which two digits are kept; anything else is 0
AtofUnsigned(s) ==
    LET Fraction(rest) ==
            IF Len(rest) >= 2 /\ rest[1] = "." /\ IsDigit(rest[2])
            THEN 10 * DigitVal(rest[2])
                 + (IF Len(rest) >= 3 /\ IsDigit(rest[3])
                    THEN DigitVal(rest[3]) ELSE 0)
            ELSE 0
    IN  100 * AtoiAcc(s, 0) + Fraction(SkipDigits(s))

Atof(str) ==
    LET Signed(s) ==
            IF s # <<>> /\ Head(s) = "-" THEN 0 - AtofUnsigned(Tail(s))
            ELSE IF s # <<>> /\ Head(s) = "+" THEN AtofUnsigned(Tail(s))
            ELSE AtofUnsigned(s)
    IN  Signed(TrimStart(str))

-----------------------------------------------------------------------------
(***************************************************************************)
(* Document model (ShortStoryStructs.h) and the keyword tables of the      *)
(* parser                                                                  *)
(***************************************************************************)

DefaultLine ==
    [Text |-> <<>>, AnimationType |-> "Typewriter", Speed |-> "Standard",
     PauseDuration |-> "None", Effect |-> "None", PositionOffset |-> <<0, 0>>]

DefaultScreen ==
    [BackgroundPath |-> <<>>, HasBackgroundAsset |-> FALSE,
     TransitionType |-> "Fade", Lines |-> <<>>, TimedEvents |-> <<>>]

DefaultTimedEvent ==
    [EventType |-> "SFX", StartTime |-> 0, Duration |-> 0, AssetPath |-> <<>>]

DefaultStory ==
    [Title |-> <<>>, OST |-> <<>>, Screens |-> <<>>, SourceFileName |-> ""]

\* a story valid by its title alone
IsValidByTitle(story) == story.Title # <<>>

\* FShortStory::IsValid
IsValid(story) == story.Title # <<>> /\ Len(story.Screens) > 0

SpacerLine ==
    [DefaultLine EXCEPT !.Text = <<" ">>, !.AnimationType = "Typewriter",
                        !.PauseDuration = "None", !.Effect = "None"]

\* the literals the parser compares its input with
kw ==
    [
     STORY |-> <<"S","T","O","R","Y">>,
     SCREEN |-> <<"S","C","R","E","E","N">>,
     SPACER |-> <<"S","P","A","C","E","R">>,
     SpacerToken |-> <<"[","S","P","A","C","E","R","]">>,
     Title |-> <<"t","i","t","l","e">>,
     Ost |-> <<"o","s","t">>,
     Background |-> <<"b","a","c","k","g","r","o","u","n","d">>,
     Transition |-> <<"t","r","a","n","s","i","t","i","o","n">>,
     Game |-> <<"/","G","a","m","e">>,
     Engine |-> <<"/","E","n","g","i","n","e">>,
     Speed |-> <<"s","p","e","e","d">>,
     Pause |-> <<"p","a","u","s","e">>,
     Effect |-> <<"e","f","f","e","c","t">>,
     Offset |-> <<"o","f","f","s","e","t">>,
     Sfx |-> <<"s","f","x">>,
     Vfx |-> <<"v","f","x">>,
     Wait |-> <<"w","a","i","t">>,
     ManualBreak |-> <<"\\","\\">>
    ]

\* a result of one of the Parse<Enum> helpers: found or not, and the value
Found(v) == [ok |-> TRUE, value |-> v]
NotFound == [ok |-> FALSE, value |-> "None"]

ParseAnimationType(AnimString) ==
    LET Of(Lower) ==
            IF Lower \in {<<"t","y","p","e","w","r","i","t","e","r">>,
                          <<"s","t","a","n","d","a","r","d">>,
                          <<"a","l","o","n","e">>,
                          <<"s","l","o","w">>, <<"f","a","s","t">>}
            THEN Found("Typewriter")
            ELSE IF Lower \in {<<"l","e","f","t","_","t","o","_","r","i","g","h","t">>,
                               <<"l","e","f","t","t","o","r","i","g","h","t">>}
            THEN Found("LeftToRight")
            ELSE IF Lower \in {<<"t","o","p","_","d","o","w","n">>,
                               <<"t","o","p","d","o","w","n">>}
            THEN Found("TopDown")
            ELSE IF Lower \in {<<"w","o","r","d","_","r","a","i","n">>,
                               <<"w","o","r","d","r","a","i","n">>}
            THEN Found("WordRain")
            ELSE IF Lower = <<"s","n","a","k","e">>
            THEN Found("Snake")
            ELSE IF Lower \in {<<"p","a","r","a","g","r","a","p","h">>,
                               <<"f","a","d","e","_","i","n">>,
                               <<"f","a","d","e","i","n">>}
            THEN Found("Paragraph")
            ELSE NotFound
    IN  Of(ToLower(AnimString))

ParsePauseDuration(PauseString) ==
    LET Of(Lower) ==
            IF Lower \in {<<"0">>, <<"n","o","n","e">>} THEN Found("None")
            ELSE IF Lower = <<"s","h","o","r","t">> THEN Found("Short")
            ELSE IF Lower = <<"s","t","a","n","d","a","r","d">>
            THEN Found("Standard")
            ELSE IF Lower = <<"l","o","n","g">> THEN Found("Long")
            ELSE NotFound
    IN  Of(ToLower(PauseString))

ParseEffectType(EffectString) ==
    LET Of(Lower) ==
            IF Lower = <<"n","o","n","e">> THEN Found("None")
            ELSE IF Lower \in {<<"s","h","a","k","e","_","l","o","w">>,
                               <<"s","h","a","k","e","l","o","w">>}
            THEN Found("ShakeLow")
            ELSE IF Lower \in {<<"s","h","a","k","e","_","m","e","d">>,
                               <<"s","h","a","k","e","m","e","d">>,
                               <<"s","h","a","k","e","_","m","e","d","i","u","m">>}
            THEN Found("ShakeMed")
            ELSE IF Lower \in {<<"s","h","a","k","e","_","h","i","g","h">>,
                               <<"s","h","a","k","e","h","i","g","h">>}
            THEN Found("ShakeHigh")
            ELSE IF Lower = <<"s","t","o","r","m">> THEN Found("Storm")
            ELSE NotFound
    IN  Of(ToLower(EffectString))

ParseTransitionType(TransitionString) ==
    LET Of(Lower) ==
            IF Lower = <<"i","n","s","t","a","n","t">> THEN Found("Instant")
            ELSE IF Lower = <<"f","a","d","e">> THEN Found("Fade")
            ELSE IF Lower = <<"c","r","o","s","s","f","a","d","e">>
            THEN Found("Crossfade")
            ELSE NotFound
    IN  Of(ToLower(TransitionString))

ParseSpeed(SpeedString) ==
    LET Of(Lower) ==
            IF Lower = <<"s","t","a","n","d","a","r","d">> THEN Found("Standard")
            ELSE IF Lower = <<"f","a","s","t">> THEN Found("Fast")
            ELSE IF Lower = <<"s","l","o","w">> THEN Found("Slow")
            ELSE NotFound
    IN  Of(ToLower(SpeedString))

\* ParsePositionOffset: ok exactly when there are two comma-separated parts
ParsePositionOffset(OffsetString) ==
    LET Of(Components) ==
            IF Len(Components) = 2
            THEN [ok |-> TRUE,
                  value |-> <<Atof(TrimStartAndEnd(Components[1])),
                              Atof(TrimStartAndEnd(Components[2]))>>]
            ELSE [ok |-> FALSE, value |-> <<0, 0>>]
    IN  Of(ParseIntoArray(OffsetString, <<",">>, FALSE))

CleanLine(Line) ==
    LET Of(Cleaned) == IF StartsWith(Cleaned, <<"#">>) THEN <<>> ELSE Cleaned
    IN  Of(TrimStartAndEnd(Line))

\* IsSectionHeader: the section name, or <<>> when the line is no header
SectionNameOf(Line) == TrimStartAndEnd(SubSeq(Line, 2, Len(Line) - 1))

IsSectionHeader(Line) ==
    /\ StartsWith(Line, <<"[">>)
    /\ EndsWith(Line, <<"]">>)
    /\ LET Of(Name) == ~EqualsIgnoreCase(Name, kw.SPACER) /\ Name # <<>>
       IN  Of(SectionNameOf(Line))

\* A TMap<FString, FString>: FString keys compare without case, so the map is
\* a function on lower-cased keys.  MapAdd is TMap::Add.
EmptyMap == [k \in {} |-> <<>>]
MapAdd(m, Key, Value) ==
    LET Of(LowerKey) ==
            [k \in DOMAIN m \cup {LowerKey} |->
                IF k = LowerKey THEN Value ELSE m[k]]
    IN  Of(ToLower(Key))
MapContains(m, Key) == ToLower(Key) \in DOMAIN m
MapGet(m, Key) == m[ToLower(Key)]

\* ParseMetadataLine: whether the line is "key = value", and the map after
MetadataOk(Line) ==
    /\ ~Contains(Line, <<"|">>)
    /\ SplitFound(Line, <<"=">>)
    /\ TrimStartAndEnd(SplitLeft(Line, <<"=">>)) # <<>>
    /\ TrimStartAndEnd(SplitRight(Line, <<"=">>)) # <<>>

ParseMetadataLine(Line, Metadata) ==
    IF MetadataOk(Line)
    THEN MapAdd(Metadata, TrimStartAndEnd(SplitLeft(Line, <<"=">>)),
                          TrimStartAndEnd(SplitRight(Line, <<"=">>)))
    ELSE Metadata

-----------------------------------------------------------------------------
(***************************************************************************)
(* Parser (ShortStoryParser.cpp)                                           *)
(***************************************************************************)

\* One optional field "key=value" of a pipe line, applied to the attributes
\* parsed so far (the body of the loop of ParseLineAttributes).
ApplyAttributeField(a, Field) ==
    LET Set(Name, r, Msg) ==
            IF r.ok THEN [a EXCEPT ![Name] = r.value]
            ELSE [a EXCEPT !.Error = Msg]
        Of(Key, Value) ==
            IF Key = kw.Speed
            THEN Set("Speed", ParseSpeed(Value), "Unknown speed")
            ELSE IF Key = kw.Pause
            THEN Set("Pause", ParsePauseDuration(Value),
                     "Unknown pause duration")
            ELSE IF Key = kw.Effect
            THEN Set("Effect", ParseEffectType(Value), "Unknown effect type")
            ELSE IF Key = kw.Offset
            THEN Set("Offset", ParsePositionOffset(Value),
                     "Invalid offset format")
            ELSE [a EXCEPT !.Error = "Unknown parameter"]
    IN  IF SplitFound(Field, <<"=">>)
        THEN Of(ToLower(TrimStartAndEnd(SplitLeft(Field, <<"=">>))),
                TrimStartAndEnd(SplitRight(Field, <<"=">>)))
        ELSE [a EXCEPT !.Error = "Invalid parameter format"]

RECURSIVE ApplyAttributeFields(_, _, _)
ApplyAttributeFields(a, Fields, i) ==
    IF i > Len(Fields) THEN a
    ELSE ApplyAttributeFields(ApplyAttributeField(a, Fields[i]), Fields, i + 1)

\* ParseLineAttributes: TEXT | ANIMATION [| key=value ...]
ParseLineAttributes(Line) ==
    LET none == [ok |-> FALSE, Text |-> <<>>, Anim |-> "Typewriter",
                 Speed |-> "Standard", Pause |-> "None", Effect |-> "None",
                 Offset |-> <<0, 0>>, Error |-> ""]
        OfText(Fields, OutText, anim) ==
            IF OutText = <<>>
            THEN [none EXCEPT !.Text = OutText, !.Error = "Empty text field"]
            ELSE ApplyAttributeFields(
                     [none EXCEPT
                        !.ok = TRUE, !.Text = OutText,
                        !.Anim = IF anim.ok THEN anim.value ELSE "Typewriter",
                        !.Error = IF anim.ok THEN ""
                                  ELSE "Unknown animation type"],
                     Fields, 3)
        OfFields(Fields) ==
            IF Len(Fields) < 2
            THEN [none EXCEPT !.Error = "Invalid story line format"]
            ELSE OfText(Fields,
                        IF EqualsIgnoreCase(TrimStartAndEnd(Fields[1]),
                                            kw.SpacerToken)
                        THEN <<" ">> ELSE Fields[1],
                        ParseAnimationType(Fields[2]))
        OfRaw(Raw) == OfFields([i \in 1..Len(Raw) |-> TrimStartAndEnd(Raw[i])])
    IN  OfRaw(ParseIntoArray(Line, <<"|">>, FALSE))

\* the cut, had the scan stopped at the first space of the range
FindSplitIndexFirstSpace(Remaining, MaxLen) ==
    LET spaces == {i \in 0..MaxLen : Remaining[i + 1] = " "}
    IN  IF spaces = {} THEN MaxLen
        ELSE CHOOSE i \in spaces : \A j \in spaces : i <= j

\* SplitTextByLength: the scan from MaxLen down to 0 for a space (0-based
\* index), and MaxLen when there is none; Remaining is longer than MaxLen
FindSplitIndex(Remaining, MaxLen) ==
    LET spaces == {i \in 0..MaxLen : Remaining[i + 1] = " "}
    IN  IF spaces = {} THEN MaxLen
        ELSE CHOOSE i \in spaces : \A j \in spaces : j <= i

\* SplitTextByLength: the loop over Remaining
RECURSIVE SplitRemaining(_, _)
SplitRemaining(Remaining, MaxLen) ==
    IF Len(Remaining) > MaxLen
    THEN LET SplitIndex == FindSplitIndex(Remaining, MaxLen)
         IN  <<TrimStartAndEnd(Left(Remaining, SplitIndex))>>
                 \o SplitRemaining(TrimStart(Mid(Remaining, SplitIndex)),
                                   MaxLen)
    ELSE IF Remaining # <<>> THEN <<TrimStartAndEnd(Remaining)>>
    ELSE <<>>

\* SplitTextByLength, had it wrapped a text as long as the limit
SplitTextByLengthBelow(Text, MaxLen) ==
    IF Text = <<>> THEN <<>>
    ELSE IF MaxLen <= 0 THEN <<Text>>
    ELSE SplitRemaining(Text, MaxLen - 1)

SplitTextByLength(Text, MaxLen) ==
    IF Text = <<>> THEN <<>>
    ELSE IF MaxLen <= 0 THEN <<Text>>
    ELSE SplitRemaining(Text, MaxLen)

\* the manual segments taken as they are, without wrapping
WrapSegmentsUnwrapped(ManualSegments, MaxLen) ==
    [i \in DOMAIN ManualSegments |-> TrimStartAndEnd(ManualSegments[i])]

RECURSIVE WrapSegments(_, _)
WrapSegments(ManualSegments, MaxLen) ==
    IF ManualSegments = <<>> THEN <<>>
    ELSE SplitTextByLength(TrimStartAndEnd(Head(ManualSegments)), MaxLen)
             \o WrapSegments(Tail(ManualSegments), MaxLen)

\* ProcessTextToLines, had every segment of a wrapped text the pause asked
ProcessTextToLinesOnePause(Text, Anim, Speed, Pause, Effect, Offset, MaxLen) ==
    LET OfFinal(FinalSegments) ==
            [i \in 1..Len(FinalSegments) |->
                [Text |-> FinalSegments[i], AnimationType |-> Anim,
                 Speed |-> Speed, PauseDuration |-> Pause,
                 Effect |-> Effect, PositionOffset |-> Offset]]
        OfParsed(Parsed) ==
            OfFinal(WrapSegments(IF Len(Parsed) = 0 THEN <<Text>> ELSE Parsed,
                                 MaxLen))
    IN  OfParsed(ParseIntoArray(Text, kw.ManualBreak, FALSE))

\* ProcessTextToLines: the Lines appended to OutLines
ProcessTextToLines(Text, Anim, Speed, Pause, Effect, Offset, MaxLen) ==
    LET OfFinal(FinalSegments) ==
            [i \in 1..Len(FinalSegments) |->
                [Text |-> FinalSegments[i], AnimationType |-> Anim,
                 Speed |-> Speed,
                 PauseDuration |-> IF i = Len(FinalSegments) THEN Pause
                                   ELSE "LineBreak",
                 Effect |-> Effect, PositionOffset |-> Offset]]
        OfParsed(Parsed) ==
            OfFinal(WrapSegments(IF Len(Parsed) = 0 THEN <<Text>> ELSE Parsed,
                                 MaxLen))
    IN  OfParsed(ParseIntoArray(Text, kw.ManualBreak, FALSE))

\* ParseTimedEvent (the line without its @)
ParseTimedEvent(Line) ==
    LET bad(msg) == [ok |-> FALSE, Event |-> DefaultTimedEvent, Error |-> msg]
        good(e) == [ok |-> TRUE, Event |-> e, Error |-> ""]
        OfFields(Parts, Command, Remainder, Fields) ==
            IF Command = kw.Sfx
            THEN IF Len(Fields) < 2 THEN bad("Invalid @sfx format")
                 ELSE good([DefaultTimedEvent EXCEPT
                              !.EventType = "SFX",
                              !.AssetPath = TrimStartAndEnd(Fields[1]),
                              !.StartTime = Atof(TrimStartAndEnd(Fields[2]))])
            ELSE IF Command = kw.Vfx
            THEN IF Len(Fields) < 3 THEN bad("Invalid @vfx format")
                 ELSE good([DefaultTimedEvent EXCEPT
                              !.EventType = "VFX",
                              !.AssetPath = TrimStartAndEnd(Fields[1]),
                              !.StartTime = Atof(TrimStartAndEnd(Fields[2])),
                              !.Duration = Atof(TrimStartAndEnd(Fields[3]))])
            ELSE IF Command = kw.Wait
            THEN IF Len(Parts) < 2 THEN bad("Invalid @wait format")
                 ELSE good([DefaultTimedEvent EXCEPT
                              !.EventType = "Wait",
                              !.StartTime = Atof(Parts[2])])
            ELSE IF Command = kw.Background
            THEN IF Remainder = <<>> THEN bad("Invalid @background format")
                 ELSE good([DefaultTimedEvent EXCEPT
                              !.EventType = "BackgroundChange",
                              !.AssetPath = Remainder])
            ELSE bad("Unknown timed event command")
        OfRemainder(Parts, Command, Remainder) ==
            OfFields(Parts, Command, Remainder,
                     ParseIntoArray(Remainder, <<"|">>, FALSE))
        OfParts(Parts) ==
            IF Len(Parts) = 0 THEN bad("Empty timed event")
            ELSE OfRemainder(Parts, ToLower(Parts[1]),
                             TrimStartAndEnd(Mid(Line, Len(Parts[1]))))
    IN  OfParts(ParseIntoArray(Line, <<" ">>, TRUE))

\* A diagnostic: the number of the line it is about (0: the whole file) and
\* the text of its message
Diag(LineNumber, Msg) == [Line |-> LineNumber, Msg |-> Msg]

\* The locals of ParseStoryFromString before its loop
ParseStart ==
    [State |-> "None", StoryMetadata |-> EmptyMap,
     ScreenMetadata |-> EmptyMap, bFoundStorySection |-> FALSE,
     PendingLines |-> <<>>, Screens |-> <<>>, Errors |-> <<>>]

AddError(p, LineNumber, Msg) ==
    [p EXCEPT !.Errors = Append(@, Diag(LineNumber, Msg))]

\* the current screen is the last one of OutStory.Screens
SetCurrentScreen(p, scr) == [p EXCEPT !.Screens[Len(p.Screens)] = scr]

\* a section header line (ParseStoryFromString, the block under IsSectionHeader)
ParseSectionHeader(p, Line, LineNumber) ==
    LET Of(SectionName, p1) ==
            IF EqualsIgnoreCase(SectionName, kw.STORY)
            THEN [p1 EXCEPT !.State = "StoryMetadata",
                            !.bFoundStorySection = TRUE]
            ELSE IF StartsWith(SectionName, kw.SCREEN)
            THEN [p1 EXCEPT !.State = "ScreenContent",
                            !.ScreenMetadata = EmptyMap,
                            !.Screens = Append(@, DefaultScreen)]
            ELSE AddError(p1, LineNumber, "Unknown section")
    IN  Of(SectionNameOf(Line),
           IF Len(p.PendingLines) > 0
           THEN [AddError(p, LineNumber, "Orphaned text lines found before section change")
                     EXCEPT !.PendingLines = <<>>]
           ELSE p)

\* screen metadata applied to the current screen
ApplyScreenMetadata(scr, Metadata) ==
    LET WithBackground(BGPath) ==
            [scr EXCEPT
               !.BackgroundPath = BGPath,
               !.HasBackgroundAsset =
                   IF StartsWith(BGPath, kw.Game) \/ StartsWith(BGPath, kw.Engine)
                   THEN TRUE ELSE @]
        WithTransition(s1, tr) ==
            IF tr.ok THEN [s1 EXCEPT !.TransitionType = tr.value] ELSE s1
        Of(s1) ==
            IF MapContains(Metadata, kw.Transition)
            THEN WithTransition(s1,
                     ParseTransitionType(MapGet(Metadata, kw.Transition)))
            ELSE s1
    IN  Of(IF MapContains(Metadata, kw.Background)
           THEN WithBackground(MapGet(Metadata, kw.Background))
           ELSE scr)

\* the pending lines, had they been given the pause of the finisher
RECURSIVE ProcessPendingLinesWithPause(_, _, _)
ProcessPendingLinesWithPause(PendingLines, a, MaxLen) ==
    IF PendingLines = <<>> THEN <<>>
    ELSE ProcessTextToLines(Head(PendingLines), a.Anim, a.Speed, a.Pause,
                            a.Effect, a.Offset, MaxLen)
             \o ProcessPendingLinesWithPause(Tail(PendingLines), a, MaxLen)

\* the Lines of the pending continuation lines of a finisher line
RECURSIVE ProcessPendingLines(_, _, _)
ProcessPendingLines(PendingLines, a, MaxLen) ==
    IF PendingLines = <<>> THEN <<>>
    ELSE ProcessTextToLines(Head(PendingLines), a.Anim, a.Speed, "None",
                            a.Effect, a.Offset, MaxLen)
             \o ProcessPendingLines(Tail(PendingLines), a, MaxLen)

\* a line in a screen section (case EParseState::ScreenContent)
ParseScreenContent(p, Line, LineNumber, MaxLen) ==
    LET OfMetadata(scr, md) ==
            SetCurrentScreen([p EXCEPT !.ScreenMetadata = md],
                             ApplyScreenMetadata(scr, md))
        OfEvent(scr, ev) ==
            IF ev.ok
            THEN SetCurrentScreen(p,
                    [scr EXCEPT !.TimedEvents = Append(@, ev.Event)])
            ELSE AddError(p, LineNumber, ev.Error)
        OfSpacer(scr, p1) ==
            SetCurrentScreen(p1, [scr EXCEPT !.Lines = Append(@, SpacerLine)])
        OfAttributes(scr, a) ==
            IF a.ok
            THEN SetCurrentScreen([p EXCEPT !.PendingLines = <<>>],
                    [scr EXCEPT !.Lines =
                        @ \o ProcessPendingLines(p.PendingLines, a, MaxLen)
                          \o ProcessTextToLines(a.Text, a.Anim, a.Speed,
                                 a.Pause, a.Effect, a.Offset, MaxLen)
                          \o <<SpacerLine>>])
            ELSE AddError(p, LineNumber, a.Error)
        OfScreen(scr) ==
            IF /\ ~(Len(scr.Lines) > 0 \/ Len(scr.TimedEvents) > 0
                      \/ Len(p.PendingLines) > 0)
               /\ MetadataOk(Line)
            THEN OfMetadata(scr, ParseMetadataLine(Line, p.ScreenMetadata))
            ELSE IF StartsWith(Line, <<"@">>)
            THEN OfEvent(scr, ParseTimedEvent(Mid(Line, 1)))
            ELSE IF EqualsIgnoreCase(TrimStartAndEnd(Line), kw.SpacerToken)
            THEN OfSpacer(scr,
                    IF Len(p.PendingLines) > 0
                    THEN [AddError(p, LineNumber, "[SPACER] found inside a pending text block")
                              EXCEPT !.PendingLines = <<>>]
                    ELSE p)
            ELSE IF Contains(Line, <<"|">>)
            THEN OfAttributes(scr, ParseLineAttributes(Line))
            ELSE [p EXCEPT !.PendingLines = Append(@, Line)]
    IN  IF Len(p.Screens) = 0
        THEN AddError(p, LineNumber, "No active screen section")
        ELSE OfScreen(p.Screens[Len(p.Screens)])

\* one iteration of the loop of ParseStoryFromString
ParseOneLine(p, RawLine, LineNumber, MaxLen) ==
    LET Of(Line) ==
            IF Line = <<>> THEN p
            ELSE IF IsSectionHeader(Line)
            THEN ParseSectionHeader(p, Line, LineNumber)
            ELSE IF p.State = "StoryMetadata"
            THEN IF MetadataOk(Line)
                 THEN [p EXCEPT !.StoryMetadata = ParseMetadataLine(Line, @)]
                 ELSE AddError(p, LineNumber, "Invalid metadata format")
            ELSE IF p.State = "ScreenContent"
            THEN ParseScreenContent(p, Line, LineNumber, MaxLen)
            ELSE AddError(p, LineNumber,
                          "Content found before [STORY] or [SCREEN] section")
    IN  Of(CleanLine(RawLine))

RECURSIVE ParseLoop(_, _, _, _)
ParseLoop(p, Lines, i, MaxLen) ==
    IF i > Len(Lines) THEN p
    ELSE ParseLoop(ParseOneLine(p, Lines[i], i, MaxLen), Lines, i + 1, MaxLen)

\* what ParseStoryFromString does after its loop
ParseFinish(p) ==
    LET Of(story, pending) ==
            IF ~p.bFoundStorySection
            THEN [Success |-> FALSE,
                  Story |-> [DefaultStory EXCEPT !.Screens = p.Screens],
                  Errors |-> Append(p.Errors,
                                    Diag(0, "Missing [STORY] section"))]
            ELSE IF ~IsValid(story)
            THEN [Success |-> FALSE, Story |-> story,
                  Errors |-> pending
                      \o (IF story.Title = <<>>
                          THEN <<Diag(0, "Missing 'title' in [STORY] section")>>
                          ELSE <<>>)
                      \o (IF Len(story.Screens) = 0
                          THEN <<Diag(0, "No screens defined (missing [SCREEN_XX] sections)")>>
                          ELSE <<>>)]
            ELSE [Success |-> TRUE, Story |-> story, Errors |-> pending]
    IN  Of([DefaultStory EXCEPT
              !.Screens = p.Screens,
              !.Title = IF MapContains(p.StoryMetadata, kw.Title)
                        THEN MapGet(p.StoryMetadata, kw.Title) ELSE <<>>,
              !.OST = IF MapContains(p.StoryMetadata, kw.Ost)
                      THEN MapGet(p.StoryMetadata, kw.Ost) ELSE <<>>],
           IF Len(p.PendingLines) > 0
           THEN Append(p.Errors,
                       Diag(0, "End of file: Orphaned text lines found"))
           ELSE p.Errors)

\* ParseStoryFromString(StoryText, OutStory, OutErrors, MaxLineLength)
ParseStoryFromString(StoryText, MaxLen) ==
    LET Of(Lines) ==
            IF Len(Lines) = 0
            THEN [Success |-> FALSE, Story |-> DefaultStory,
                  Errors |-> <<Diag(0, "Empty story file")>>]
            ELSE ParseFinish(ParseLoop(ParseStart, Lines, 1, MaxLen))
    IN  Of(ParseIntoArrayLines(StoryText))

-----------------------------------------------------------------------------
(***************************************************************************)
(* Timing configuration (ShortStorySubsystem.cpp, LoadTimingConfigs)       *)
(***************************************************************************)

Speeds == {"Standard", "Fast", "Slow"}
Animations ==
    {"Typewriter", "LeftToRight", "Paragraph", "TopDown", "WordRain", "Snake"}

\* FStoryAnimationTiming() with its member defaults (0.04f is 4)
DefaultTiming ==
    [PerLetter |-> 4, ExtraAtSpace |-> 8, ExtraAtPeriod |-> 30,
     ExtraAtComma |-> 20, BlockDuration |-> 200, ExtraAtColon |-> 40]

\* the members before LoadTimingConfigs runs
DefaultConfig ==
    [SpeedTimings |-> [sp \in {} |-> DefaultTiming],
     PauseDurations |-> [pz \in {} |-> 0],
     ScreenTransitionPauseSeconds |-> 150,
     FadeWindowSeconds |-> 50,
     LineBreakPercent |-> 66]

\* A config directory holds four files (Global, Standard, Fast, Slow): each
\* exists or not, and has rows [Category, Name, Value]
Row(c, n, v) == [Category |-> c, Name |-> n, Value |-> v]
CsvFile(rows) == [Exists |-> TRUE, Rows |-> rows]
MissingFile == [Exists |-> FALSE, Rows |-> <<>>]

\* one row of ShortStoryGlobal.csv
ApplyGlobalRow(cfg, r) ==
    IF r.Category = "Pause"
    THEN IF r.Name \in {"None", "Short", "Standard", "Long"}
         THEN [cfg EXCEPT !.PauseDurations =
                  [k \in DOMAIN @ \cup {r.Name} |->
                      IF k = r.Name THEN r.Value ELSE @[k]]]
         ELSE cfg
    ELSE IF r.Category = "Transition"
    THEN IF r.Name = "ScreenPause"
         THEN [cfg EXCEPT !.ScreenTransitionPauseSeconds = r.Value]
         ELSE IF r.Name = "FadeWindow"
         THEN [cfg EXCEPT !.FadeWindowSeconds = r.Value]
         ELSE IF r.Name = "LineBreakPercent"
         THEN [cfg EXCEPT !.LineBreakPercent = r.Value]
         ELSE cfg
    ELSE cfg

RECURSIVE ApplyGlobalRows(_, _)
ApplyGlobalRows(cfg, rows) ==
    IF rows = <<>> THEN cfg
    ELSE ApplyGlobalRows(ApplyGlobalRow(cfg, Head(rows)), Tail(rows))

\* one row of a Speed_*.csv
ApplySpeedRow(t, r) ==
    IF r.Name \in DOMAIN DefaultTiming
    THEN [t EXCEPT ![r.Name] = r.Value]
    ELSE t

RECURSIVE ApplySpeedRows(_, _)
ApplySpeedRows(t, rows) ==
    IF rows = <<>> THEN t
    ELSE ApplySpeedRows(ApplySpeedRow(t, Head(rows)), Tail(rows))

\* the lambda LoadSpeedConfig
LoadSpeedConfig(cfg, dir, Speed) ==
    IF ~dir[Speed].Exists THEN cfg
    ELSE [cfg EXCEPT !.SpeedTimings =
             [k \in DOMAIN @ \cup {Speed} |->
                 IF k = Speed
                 THEN ApplySpeedRows(DefaultTiming, dir[Speed].Rows)
                 ELSE @[k]]]

LoadTimingConfigs(dir) ==
    IF ~dir.Global.Exists THEN DefaultConfig
    ELSE LoadSpeedConfig(
             LoadSpeedConfig(
                 LoadSpeedConfig(
                     ApplyGlobalRows(DefaultConfig, dir.Global.Rows),
                     dir, "Standard"),
                 dir, "Fast"),
             dir, "Slow")

GetSpeedTiming(Speed) ==
    IF Speed \in DOMAIN SpeedTimings THEN SpeedTimings[Speed]
    ELSE IF "Standard" \in DOMAIN SpeedTimings THEN SpeedTimings["Standard"]
    ELSE DefaultTiming

GetPauseDuration(PauseType) ==
    IF PauseType \in {"LineBreak", "None"}
    THEN (FadeWindowSeconds * LineBreakPercent) \div 100
    ELSE IF PauseType \in DOMAIN PauseDurations THEN PauseDurations[PauseType]
    ELSE 0

-----------------------------------------------------------------------------
(***************************************************************************)
(* Duration calculator (ShortStorySubsystem.cpp:557-690)                   *)
(***************************************************************************)

\* the extra delay after one character
ExtraTimeOf(Char, Timing) ==
    IF IsWhitespace(Char) THEN Timing.ExtraAtSpace
    ELSE IF Char \in {".", "!", "?"} THEN Timing.ExtraAtPeriod
    ELSE IF Char = "," THEN Timing.ExtraAtComma
    ELSE IF Char \in {";", ":"}
    THEN IF Char = ":" THEN Timing.ExtraAtColon ELSE Timing.ExtraAtComma
    ELSE 0

RECURSIVE TypewriterTotal(_, _, _)
TypewriterTotal(Text, Timing, Total) ==
    IF Text = <<>> THEN Total
    ELSE TypewriterTotal(Tail(Text), Timing,
             Total + Timing.PerLetter + ExtraTimeOf(Head(Text), Timing))

CalculateTypewriterDuration(Text, Speed) ==
    TypewriterTotal(Text, GetSpeedTiming(Speed), 0)

\* every line timed letter by letter, whatever its animation
CalculateLineDurationByLetters(Line) ==
    CalculateTypewriterDuration(Line.Text, Line.Speed)

CalculateLineDuration(Line) ==
    IF Line.AnimationType # "Typewriter"
    THEN GetSpeedTiming(Line.Speed).BlockDuration
    ELSE CalculateTypewriterDuration(Line.Text, Line.Speed)

\* the loop of GetCharacterIndexAtTime; i is the 0-based index
RECURSIVE CharIndexLoop(_, _, _, _, _)
CharIndexLoop(Text, Timing, Time, i, CurrentTime) ==
    IF i >= Len(Text) THEN Len(Text)
    ELSE LET TypeTime  == Timing.PerLetter
             ExtraTime == ExtraTimeOf(Text[i + 1], Timing)
         IN  IF Time < CurrentTime + TypeTime THEN i
             ELSE IF Time < CurrentTime + TypeTime + ExtraTime THEN i + 1
             ELSE CharIndexLoop(Text, Timing, Time, i + 1,
                                CurrentTime + TypeTime + ExtraTime)

GetCharacterIndexAtTime(Text, Speed, Time) ==
    IF Time <= 0 THEN 0
    ELSE CharIndexLoop(Text, GetSpeedTiming(Speed), Time, 0, 0)

-----------------------------------------------------------------------------
(***************************************************************************)
(* The world outside the subsystem: the config directory and the story     *)
(* files of the Stories directory                                          *)
(***************************************************************************)

SpeedRows(perLetter, space, period, comma, colon, block) ==
    <<Row("Speed", "PerLetter", perLetter),
      Row("Speed", "ExtraAtSpace", space),
      Row("Speed", "ExtraAtPeriod", period),
      Row("Speed", "ExtraAtComma", comma),
      Row("Speed", "ExtraAtColon", colon),
      Row("Speed", "BlockDuration", block)>>

GlobalRows ==
    <<Row("Pause", "Short", 20), Row("Pause", "Standard", 50),
      Row("Pause", "Long", 40), Row("Transition", "ScreenPause", 30),
      Row("Transition", "FadeWindow", 50),
      Row("Transition", "LineBreakPercent", 66)>>

\* the config directory of an installed game: every file is there
InstalledConfigDir ==
    [Global   |-> CsvFile(GlobalRows),
     Standard |-> CsvFile(SpeedRows(10, 10, 20, 10, 30, 30)),
     Fast     |-> CsvFile(SpeedRows(5, 5, 10, 5, 15, 20)),
     Slow     |-> CsvFile(SpeedRows(20, 20, 40, 20, 60, 50))]

\* lines of story files
ln ==
    [
     Story |-> <<"[","S","T","O","R","Y","]">>,
     Title |-> <<"t","i","t","l","e"," ","="," ","T">>,
     Screen1 |-> <<"[","S","C","R","E","E","N","_","1","]">>,
     Screen2 |-> <<"[","S","C","R","E","E","N","_","2","]">>,
     Screen3 |-> <<"[","S","C","R","E","E","N","_","3","]">>,
     Screen4 |-> <<"[","S","C","R","E","E","N","_","4","]">>,
     Wait30 |-> <<"@","w","a","i","t"," ","0",".","3">>,
     Wait10 |-> <<"@","w","a","i","t"," ","0",".","1">>,
     \* a. | typewriter | pause=short
     TypeA |-> <<"a","."," ","|"," ","t","y","p","e","w","r","i","t","e","r", " ","|"," ","p","a","u","s","e","=","s","h","o","r","t">>,
     TopZ |-> <<"z"," ","|"," ","t","o","p","d","o","w","n">>,
     ParaB |-> <<"b"," ","|"," ","p","a","r","a","g","r","a","p","h">>,
     SnakeC |-> <<"c"," ","|"," ","s","n","a","k","e">>,
     \* e | paragraph | pause=long
     ParaE |-> <<"e"," ","|"," ","p","a","r","a","g","r","a","p","h", " ","|"," ","p","a","u","s","e","=","l","o","n","g">>,
     UnknownSection |-> <<"[","F","O","O","]">>,
     \* title =
     NoTitle |-> <<"t","i","t","l","e"," ","=">>,
     \* q | bogus
     BadAnim |-> <<"q"," ","|"," ","b","o","g","u","s">>
    ]

\* four screens: timed events declared out of order and a typewriter line;
\* a TopDown block of three lines; no lines; a Snake line and a Paragraph
\* block of two
FileA ==
    <<ln.Story, ln.Title,
      ln.Screen1, ln.Wait30, ln.Wait10, ln.TypeA,
      ln.Screen2, <<"x">>, <<"y">>, ln.TopZ,
      ln.Screen3,
      ln.Screen4, ln.SnakeC, <<"d">>, ln.ParaE>>

\* the first screen has no lines
FileB == <<ln.Story, ln.Title, ln.Screen1, ln.Screen2, ln.ParaB>>

\* no title: the parse fails
FileBad == <<ln.Story, ln.Screen1, ln.ParaB>>

Disk ==
    [k \in {"a.tos", "b.tos", "bad.tos"} |->
        CASE k = "a.tos" -> FileA
          [] k = "b.tos" -> FileB
          [] OTHER       -> FileBad]

\* the names a caller passes: the files, a file that is not there, no name
StoryFileNames == DOMAIN Disk \cup {"gone.tos", ""}

\* UShortStorySubsystem::MaxLineLength
MaxLineLength == 80

\* ParseStoryFile
ParseStoryFile(StoryFilePath, MaxLen) ==
    LET Of(r) ==
            IF r.Success
            THEN [r EXCEPT !.Story.SourceFileName = StoryFilePath]
            ELSE r
    IN  IF StoryFilePath \notin DOMAIN Disk
        THEN [Success |-> FALSE, Story |-> DefaultStory,
              Errors |-> <<Diag(0, "File not found")>>]
        ELSE Of(ParseStoryFromString(Disk[StoryFilePath], MaxLen))

\* what ParseStoryFile returns for each name a caller passes
ParsedFiles == [k \in StoryFileNames |-> ParseStoryFile(k, MaxLineLength)]

-----------------------------------------------------------------------------
(***************************************************************************)
(* Story cache (ShortStorySubsystem.cpp:52-126, 334-355)                   *)
(***************************************************************************)

\* LoadStory, had a forced reload looked into the cache as well
LoadStoryCacheFirst(StoryFileName, bForceReload) ==
    LET Failed(Msg) ==
            [Success |-> FALSE, Story |-> DefaultStory, Cache |-> CachedStories,
             Log |-> <<Msg>>]
        Of(r) ==
            IF ~r.Success THEN Failed("LoadStory: Failed to parse")
            ELSE [Success |-> TRUE, Story |-> r.Story,
                  Cache |-> [k \in DOMAIN CachedStories \cup {StoryFileName}
                                |-> IF k = StoryFileName THEN r.Story
                                    ELSE CachedStories[k]],
                  Log |-> <<"LoadStory: Parsed">>]
    IN  IF StoryFileName = "" THEN Failed("LoadStory: Empty filename")
        ELSE IF StoryFileName \in DOMAIN CachedStories
        THEN [Success |-> TRUE, Story |-> CachedStories[StoryFileName],
              Cache |-> CachedStories, Log |-> <<"LoadStory: Loading from cache">>]
        ELSE Of(ParsedFiles[StoryFileName])

\* LoadStory dropping the cache entry of a file that no longer parses
LoadStoryDroppingFailed(StoryFileName, bForceReload) ==
    LET Failed(Msg) ==
            [Success |-> FALSE, Story |-> DefaultStory, Cache |-> CachedStories,
             Log |-> <<Msg>>]
        Of(r) ==
            IF ~r.Success
            THEN [Success |-> FALSE, Story |-> DefaultStory,
                  Cache |-> [k \in DOMAIN CachedStories \ {StoryFileName}
                                |-> CachedStories[k]],
                  Log |-> <<"LoadStory: Failed to parse">>]
            ELSE [Success |-> TRUE, Story |-> r.Story,
                  Cache |-> [k \in DOMAIN CachedStories \cup {StoryFileName}
                                |-> IF k = StoryFileName THEN r.Story
                                    ELSE CachedStories[k]],
                  Log |-> <<"LoadStory: Parsed">>]
    IN  IF StoryFileName = "" THEN Failed("LoadStory: Empty filename")
        ELSE IF ~bForceReload /\ StoryFileName \in DOMAIN CachedStories
        THEN [Success |-> TRUE, Story |-> CachedStories[StoryFileName],
              Cache |-> CachedStories, Log |-> <<"LoadStory: Loading from cache">>]
        ELSE Of(ParsedFiles[StoryFileName])

\* LoadStory: bSuccess, the story returned, the cache afterwards, and what
\* it logs: that the story came from the cache, or how the parse ended
LoadStory(StoryFileName, bForceReload) ==
    LET Failed(Msg) ==
            [Success |-> FALSE, Story |-> DefaultStory, Cache |-> CachedStories,
             Log |-> <<Msg>>]
        Of(r) ==
            IF ~r.Success THEN Failed("LoadStory: Failed to parse")
            ELSE [Success |-> TRUE, Story |-> r.Story,
                  Cache |-> [k \in DOMAIN CachedStories \cup {StoryFileName}
                                |-> IF k = StoryFileName THEN r.Story
                                    ELSE CachedStories[k]],
                  Log |-> <<"LoadStory: Parsed">>]
    IN  IF StoryFileName = "" THEN Failed("LoadStory: Empty filename")
        ELSE IF ~bForceReload /\ StoryFileName \in DOMAIN CachedStories
        THEN [Success |-> TRUE, Story |-> CachedStories[StoryFileName],
              Cache |-> CachedStories, Log |-> <<"LoadStory: Loading from cache">>]
        ELSE Of(ParsedFiles[StoryFileName])

-----------------------------------------------------------------------------
(***************************************************************************)
(* Playback (ShortStorySubsystem.cpp:696-1244).  The private helpers are   *)
(* functions from player state to player state; a player state is a record *)
(* with one field per member variable.                                     *)
(***************************************************************************)

\* the sentinel of LineStartTimes: -1.0f
NotStarted == -100

\* float CascadeDelay = 0.2f
CascadeDelay == 20

Player ==
    [CurrentStory |-> CurrentStory,
     CurrentScreenIndex |-> CurrentScreenIndex,
     CurrentLineIndex |-> CurrentLineIndex,
     LineElapsedTime |-> LineElapsedTime,
     LineDuration |-> LineDuration,
     PauseElapsedTime |-> PauseElapsedTime,
     PauseDuration |-> PauseDuration,
     ScreenElapsedTime |-> ScreenElapsedTime,
     TransitionElapsedTime |-> TransitionElapsedTime,
     LineStartTimes |-> LineStartTimes,
     bIsPlaying |-> bIsPlaying,
     bIsPaused |-> bIsPaused,
     CurrentState |-> CurrentState,
     ProcessedTimedEventIndices |-> ProcessedTimedEventIndices,
     TickerHandle |-> TickerHandle]

\* the member variables after a call that leaves the player in state st
SetPlayer(st) ==
    /\ CurrentStory' = st.CurrentStory
    /\ CurrentScreenIndex' = st.CurrentScreenIndex
    /\ CurrentLineIndex' = st.CurrentLineIndex
    /\ LineElapsedTime' = st.LineElapsedTime
    /\ LineDuration' = st.LineDuration
    /\ PauseElapsedTime' = st.PauseElapsedTime
    /\ PauseDuration' = st.PauseDuration
    /\ ScreenElapsedTime' = st.ScreenElapsedTime
    /\ TransitionElapsedTime' = st.TransitionElapsedTime
    /\ LineStartTimes' = st.LineStartTimes
    /\ bIsPlaying' = st.bIsPlaying
    /\ bIsPaused' = st.bIsPaused
    /\ CurrentState' = st.CurrentState
    /\ ProcessedTimedEventIndices' = st.ProcessedTimedEventIndices
    /\ TickerHandle' = st.TickerHandle

\* LineStartTimes filled with 0, the time a screen begins at
InitStartTimesAtZero(Num) == [i \in 1..Num |-> 0]

\* TArray::Init(-1.0f, Num)
InitStartTimes(Num) == [i \in 1..Num |-> NotStarted]

NumScreens(st) == Len(st.CurrentStory.Screens)

\* CurrentStory.Screens[CurrentScreenIndex]
ScreenAt(st) == st.CurrentStory.Screens[st.CurrentScreenIndex + 1]

\* GetCurrentLine
GetCurrentLine(st) ==
    IF ~st.bIsPlaying \/ st.CurrentScreenIndex >= NumScreens(st)
    THEN DefaultLine
    ELSE IF st.CurrentLineIndex >= Len(ScreenAt(st).Lines)
    THEN DefaultLine
    ELSE ScreenAt(st).Lines[st.CurrentLineIndex + 1]

\* a block that never grows past its first line
FindBlockEndAtStart(Lines, Anim, i, BlockEndIndex) == BlockEndIndex

\* StartLine, the loop that finds the end of the block
RECURSIVE FindBlockEnd(_, _, _, _)
FindBlockEnd(Lines, Anim, i, BlockEndIndex) ==
    IF i >= Len(Lines) THEN BlockEndIndex
    ELSE IF Lines[i + 1].AnimationType = Anim
    THEN FindBlockEnd(Lines, Anim, i + 1, i)
    ELSE BlockEndIndex

\* StartLine, the loop that times the block: the start times and
\* MaxFinishTime after lines i..BlockEndIndex
RECURSIVE BlockTiming(_, _, _, _, _, _, _, _)
BlockTiming(Lines, Anim, i, BlockEndIndex, Elapsed, CurrentDelay, MaxFinishTime, StartTimes) ==
    IF i > BlockEndIndex
    THEN [LineStartTimes |-> StartTimes, MaxFinishTime |-> MaxFinishTime]
    ELSE LET NewStartTimes ==
                 IF i + 1 \in DOMAIN StartTimes
                 THEN [StartTimes EXCEPT ![i + 1] = Elapsed + CurrentDelay]
                 ELSE StartTimes
             NewDelay ==
                 IF Anim = "TopDown" THEN CurrentDelay + CascadeDelay
                 ELSE CurrentDelay
             ThisDuration == CalculateLineDuration(Lines[i + 1])
             FinishTime == NewDelay + ThisDuration
             NewMax == IF FinishTime > MaxFinishTime THEN FinishTime
                       ELSE MaxFinishTime
         IN  BlockTiming(Lines, Anim, i + 1, BlockEndIndex, Elapsed,
                         NewDelay, NewMax, NewStartTimes)

StartLine(st, LineIndex) ==
    IF st.CurrentScreenIndex >= NumScreens(st) THEN st
    ELSE IF LineIndex >= Len(ScreenAt(st).Lines) THEN st
    ELSE
      LET Lines == ScreenAt(st).Lines
          Line  == Lines[LineIndex + 1]
          bIsBlockAnimation == Line.AnimationType \in {"Paragraph", "TopDown"}
      IN  IF bIsBlockAnimation
          THEN LET BlockEndIndex ==
                       FindBlockEnd(Lines, Line.AnimationType, LineIndex + 1,
                                    LineIndex)
                   t == BlockTiming(Lines, Line.AnimationType, LineIndex,
                                    BlockEndIndex, st.ScreenElapsedTime, 0, 0,
                                    st.LineStartTimes)
               IN  [st EXCEPT !.LineStartTimes = t.LineStartTimes,
                              !.LineDuration = t.MaxFinishTime,
                              !.CurrentLineIndex = BlockEndIndex,
                              !.LineElapsedTime = 0,
                              !.CurrentState = "PlayingLine"]
          ELSE [st EXCEPT
                   !.LineDuration =
                       CalculateTypewriterDuration(Line.Text, Line.Speed),
                   !.LineStartTimes =
                       IF LineIndex + 1 \in DOMAIN st.LineStartTimes
                       THEN [@ EXCEPT ![LineIndex + 1] = st.ScreenElapsedTime]
                       ELSE @,
                   !.LineElapsedTime = 0,
                   !.CurrentState = "PlayingLine"]

StartPause(st) ==
    [st EXCEPT !.PauseDuration =
                   GetPauseDuration(GetCurrentLine(st).PauseDuration),
               !.PauseElapsedTime = 0,
               !.CurrentState = "PausingAfterLine"]

\* AdvanceToNextScreen keeping the fired events of the screen it leaves
AdvanceKeepingFiredEvents(st) ==
    LET s1 == [st EXCEPT !.CurrentScreenIndex = @ + 1]
    IN  IF s1.CurrentScreenIndex < NumScreens(s1)
        THEN [s1 EXCEPT !.CurrentLineIndex = 0,
                        !.ScreenElapsedTime = 0,
                        !.LineStartTimes =
                            InitStartTimes(Len(ScreenAt(s1).Lines)),
                        !.CurrentState = "TransitioningScreen"]
        ELSE [s1 EXCEPT !.bIsPlaying = FALSE,
                        !.CurrentState = "Completed",
                        !.TickerHandle = FALSE]

AdvanceToNextScreen(st) ==
    LET s1 == [st EXCEPT !.CurrentScreenIndex = @ + 1]
    IN  IF s1.CurrentScreenIndex < NumScreens(s1)
        THEN [s1 EXCEPT !.CurrentLineIndex = 0,
                        !.ScreenElapsedTime = 0,
                        !.ProcessedTimedEventIndices = {},
                        !.LineStartTimes =
                            InitStartTimes(Len(ScreenAt(s1).Lines)),
                        !.CurrentState = "TransitioningScreen"]
        ELSE [s1 EXCEPT !.bIsPlaying = FALSE,
                        !.CurrentState = "Completed",
                        !.TickerHandle = FALSE]

AdvanceToNextLineOrScreen(st) ==
    IF st.CurrentScreenIndex >= NumScreens(st) THEN st
    ELSE LET s1 == [st EXCEPT !.CurrentLineIndex = @ + 1]
         IN  IF s1.CurrentLineIndex < Len(ScreenAt(s1).Lines)
             THEN StartLine(s1, s1.CurrentLineIndex)
             ELSE AdvanceToNextScreen(s1)

\* ProcessTimedEvents, the loop from event i on: the player state and the
\* indices it logs as reached, in order
RECURSIVE TimedEventsLoop(_, _, _)
TimedEventsLoop(st, i, Log) ==
    IF i >= Len(ScreenAt(st).TimedEvents) THEN [st |-> st, Log |-> Log]
    ELSE IF i \in st.ProcessedTimedEventIndices
    THEN TimedEventsLoop(st, i + 1, Log)
    ELSE IF st.ScreenElapsedTime >= ScreenAt(st).TimedEvents[i + 1].StartTime
    THEN TimedEventsLoop(
             [st EXCEPT !.ProcessedTimedEventIndices = @ \cup {i}],
             i + 1, Append(Log, i))
    ELSE TimedEventsLoop(st, i + 1, Log)

\* ProcessTimedEvents without the comparison of ScreenElapsedTime with the
\* StartTime: every event of the screen is marked at once
ProcessTimedEventsAtOnce(st) ==
    IF st.CurrentScreenIndex >= NumScreens(st)
    THEN [st |-> st, Log |-> <<>>]
    ELSE [st |-> [st EXCEPT !.ProcessedTimedEventIndices =
                      0 .. Len(ScreenAt(st).TimedEvents) - 1],
          Log |-> <<>>]

ProcessTimedEvents(st) ==
    IF st.CurrentScreenIndex >= NumScreens(st)
    THEN [st |-> st, Log |-> <<>>]
    ELSE TimedEventsLoop(st, 0, <<>>)

\* OnScreenTransitionComplete that waits on a screen without lines
OnScreenTransitionCompleteWaiting(st) ==
    IF st.CurrentScreenIndex >= NumScreens(st) THEN st
    ELSE IF Len(ScreenAt(st).Lines) > 0 THEN StartLine(st, 0)
    ELSE st

OnScreenTransitionComplete(st) ==
    IF st.CurrentScreenIndex >= NumScreens(st) THEN st
    ELSE IF Len(ScreenAt(st).Lines) > 0 THEN StartLine(st, 0)
    ELSE AdvanceToNextScreen(st)

-----------------------------------------------------------------------------
(***************************************************************************)
(* The operations.  lastCall records the last call made on the subsystem:  *)
(* its name, what it returned (TRUE for a void function) and, for Tick,    *)
(* the timed events ProcessTimedEvents logged as reached.                  *)
(***************************************************************************)

Call(op, ret, Log) == [op |-> op, ret |-> ret, Log |-> Log]

\* fnIn and fnOut hold the arguments and the result of the last call of a
\* function that reads or writes no player state; before any, NoCall
NoCall == [op |-> "none"]

\* every call comes from the game thread: the lock is free between calls and
\* no other thread is inside a cache function
SingleThread ==
    /\ CacheMutex = "free"
    /\ threads = [t \in {} |-> NoCall]

\* the frame delta the ticker delivers: 0.2 s a frame
DeltaTimes == {20}

\* Tick is followed while the transition timer, which only Debug jumps
\* reset, is at most this
MaxTransitionElapsed == 120

\* LoadStory called from game code
LoadStoryCall(StoryFileName, bForceReload) ==
    LET Of(r) ==
            /\ CachedStories' = r.Cache
            /\ lastCall' = [op |-> "LoadStory", ret |-> r.Success, Log |-> r.Log,
                             Story |-> r.Story,
                             StoryFileName |-> StoryFileName,
                             bForceReload |-> bForceReload]
    IN  /\ Of(LoadStory(StoryFileName, bForceReload))
        /\ UNCHANGED <<configVars, playerVars, fnIn, fnOut, threadVars>>

IsStoryCached(StoryFileName) == StoryFileName \in DOMAIN CachedStories

\* ClearCachedStory on a player that reads its story through the cache
ClearCachedStoryOfPlayer(StoryFileName) ==
    /\ CachedStories' =
           [k \in DOMAIN CachedStories \ {StoryFileName} |-> CachedStories[k]]
    /\ lastCall' = Call("ClearCachedStory", TRUE, <<>>)
    /\ IF StoryFileName = CurrentStory.SourceFileName
       THEN SetPlayer([Player EXCEPT !.CurrentStory = DefaultStory])
       ELSE UNCHANGED playerVars
    /\ UNCHANGED <<configVars, fnIn, fnOut, threadVars>>

ClearCachedStory(StoryFileName) ==
    /\ CachedStories' =
           [k \in DOMAIN CachedStories \ {StoryFileName} |-> CachedStories[k]]
    /\ lastCall' = Call("ClearCachedStory", TRUE, <<>>)
    /\ UNCHANGED <<configVars, playerVars, fnIn, fnOut, threadVars>>

ClearAllCachedStories ==
    /\ CachedStories' = [k \in {} |-> DefaultStory]
    /\ lastCall' = Call("ClearAllCachedStories", TRUE, <<>>)
    /\ UNCHANGED <<configVars, playerVars, fnIn, fnOut, threadVars>>

\* StartStory refusing only a story that did not load
StartFailsOnLoadOnly(r) == ~r.Success

\* the three refusals of StartStory: the load failed, the story has no
\* screens, its first screen has no lines
StartFails(r) ==
    \/ ~r.Success
    \/ Len(r.Story.Screens) = 0
    \/ Len(r.Story.Screens[1].Lines) = 0

StartStory(StoryFileName) ==
    LET Started(LoadedStory) ==
            StartLine([Player EXCEPT
                          !.CurrentStory = LoadedStory,
                          !.CurrentScreenIndex = 0,
                          !.CurrentLineIndex = 0,
                          !.ScreenElapsedTime = 0,
                          !.ProcessedTimedEventIndices = {},
                          !.LineStartTimes =
                              InitStartTimes(Len(LoadedStory.Screens[1].Lines)),
                          !.bIsPlaying = TRUE,
                          !.bIsPaused = FALSE,
                          !.CurrentState = "PlayingLine",
                          !.TickerHandle = TRUE],
                      0)
        Of(r) ==
            /\ CachedStories' = r.Cache
            /\ IF StartFails(r)
               THEN /\ UNCHANGED playerVars
                    /\ lastCall' = Call("StartStory", FALSE, <<>>)
               ELSE /\ SetPlayer(Started(r.Story))
                    /\ lastCall' = Call("StartStory", TRUE, <<>>)
    IN  /\ Of(LoadStory(StoryFileName, FALSE))
        /\ UNCHANGED <<configVars, fnIn, fnOut, threadVars>>

\* StopStory leaving the ticker registered
StopStoryKeepingTicker ==
    /\ IF ~bIsPlaying THEN UNCHANGED playerVars
       ELSE SetPlayer([Player EXCEPT
                          !.bIsPlaying = FALSE,
                          !.bIsPaused = FALSE,
                          !.CurrentState = "Idle",
                          !.CurrentScreenIndex = 0,
                          !.CurrentLineIndex = 0,
                          !.ScreenElapsedTime = 0,
                          !.LineElapsedTime = 0,
                          !.PauseElapsedTime = 0,
                          !.ProcessedTimedEventIndices = {},
                          !.LineStartTimes = <<>>])
    /\ lastCall' = Call("StopStory", TRUE, <<>>)
    /\ UNCHANGED <<configVars, CachedStories, fnIn, fnOut, threadVars>>

StopStory ==
    /\ IF ~bIsPlaying THEN UNCHANGED playerVars
       ELSE SetPlayer([Player EXCEPT
                          !.bIsPlaying = FALSE,
                          !.bIsPaused = FALSE,
                          !.CurrentState = "Idle",
                          !.CurrentScreenIndex = 0,
                          !.CurrentLineIndex = 0,
                          !.ScreenElapsedTime = 0,
                          !.LineElapsedTime = 0,
                          !.PauseElapsedTime = 0,
                          !.ProcessedTimedEventIndices = {},
                          !.LineStartTimes = <<>>,
                          !.TickerHandle = FALSE])
    /\ lastCall' = Call("StopStory", TRUE, <<>>)
    /\ UNCHANGED <<configVars, CachedStories, fnIn, fnOut, threadVars>>

SetPaused(bPause) ==
    /\ IF ~bIsPlaying THEN UNCHANGED playerVars
       ELSE SetPlayer([Player EXCEPT !.bIsPaused = bPause])
    /\ lastCall' = Call("SetPaused", TRUE, <<>>)
    /\ UNCHANGED <<configVars, CachedStories, fnIn, fnOut, threadVars>>

\* the state machine step of a Tick that goes on from a finished line at once
TickStepWithoutPause(st, DeltaTime) ==
    CASE st.CurrentState = "PlayingLine" ->
           LET s1 == [st EXCEPT !.LineElapsedTime = @ + DeltaTime]
           IN  IF s1.LineElapsedTime >= s1.LineDuration
               THEN AdvanceToNextLineOrScreen(s1) ELSE s1
      [] st.CurrentState = "TransitioningScreen" ->
           LET s1 == [st EXCEPT !.TransitionElapsedTime = @ + DeltaTime]
           IN  IF s1.TransitionElapsedTime >= ScreenTransitionPauseSeconds
               THEN OnScreenTransitionComplete(s1) ELSE s1
      [] OTHER -> st

\* Tick past its early return: the state machine step
TickStep(st, DeltaTime) ==
    CASE st.CurrentState = "PlayingLine" ->
           LET s1 == [st EXCEPT !.LineElapsedTime = @ + DeltaTime]
           IN  IF s1.LineElapsedTime >= s1.LineDuration
               THEN StartPause(s1) ELSE s1
      [] st.CurrentState = "PausingAfterLine" ->
           LET s1 == [st EXCEPT !.PauseElapsedTime = @ + DeltaTime]
           IN  IF s1.PauseElapsedTime >= s1.PauseDuration
               THEN AdvanceToNextLineOrScreen(s1) ELSE s1
      [] st.CurrentState = "TransitioningScreen" ->
           LET s1 == [st EXCEPT !.TransitionElapsedTime = @ + DeltaTime]
           IN  IF s1.TransitionElapsedTime >= ScreenTransitionPauseSeconds
               THEN OnScreenTransitionComplete(s1) ELSE s1
      [] OTHER -> st

\* a Tick that would count the transition timer past the bound is not followed
TickCounts(DeltaTime) ==
    (bIsPlaying /\ ~bIsPaused /\ CurrentState = "TransitioningScreen")
        => TransitionElapsedTime + DeltaTime <= MaxTransitionElapsed

\* Tick returning early only when nothing plays
TickWhilePaused(DeltaTime) ==
    /\ TickCounts(DeltaTime)
    /\ IF ~bIsPlaying
       THEN /\ UNCHANGED playerVars
            /\ lastCall' = Call("Tick", TRUE, <<>>)
       ELSE LET s1 == [Player EXCEPT !.ScreenElapsedTime = @ + DeltaTime]
                pe == ProcessTimedEvents(s1)
            IN  /\ SetPlayer(TickStep(pe.st, DeltaTime))
                /\ lastCall' = Call("Tick", TRUE, pe.Log)
    /\ UNCHANGED <<configVars, CachedStories, fnIn, fnOut, threadVars>>

Tick(DeltaTime) ==
    /\ TickCounts(DeltaTime)
    /\ IF ~bIsPlaying \/ bIsPaused
       THEN /\ UNCHANGED playerVars
            /\ lastCall' = Call("Tick", TRUE, <<>>)
       ELSE LET s1 == [Player EXCEPT !.ScreenElapsedTime = @ + DeltaTime]
                pe == ProcessTimedEvents(s1)
            IN  /\ SetPlayer(TickStep(pe.st, DeltaTime))
                /\ lastCall' = Call("Tick", TRUE, pe.Log)
    /\ UNCHANGED <<configVars, CachedStories, fnIn, fnOut, threadVars>>

\* DebugSkipToNextScreen refusing one screen too late
DebugSkipPastLastScreen ==
    /\ IF ~bIsPlaying THEN UNCHANGED playerVars
       ELSE IF CurrentScreenIndex >= Len(CurrentStory.Screens)
       THEN UNCHANGED playerVars
       ELSE SetPlayer(AdvanceToNextScreen(Player))
    /\ lastCall' = Call("DebugSkipToNextScreen", TRUE, <<>>)
    /\ UNCHANGED <<configVars, CachedStories, fnIn, fnOut, threadVars>>

DebugSkipToNextScreen ==
    /\ IF ~bIsPlaying THEN UNCHANGED playerVars
       ELSE IF CurrentScreenIndex >= Len(CurrentStory.Screens) - 1
       THEN UNCHANGED playerVars
       ELSE SetPlayer(AdvanceToNextScreen(Player))
    /\ lastCall' = Call("DebugSkipToNextScreen", TRUE, <<>>)
    /\ UNCHANGED <<configVars, CachedStories, fnIn, fnOut, threadVars>>

\* the reset, had it sized LineStartTimes to the screen that is left
EnterScreenOldStartTimes(st, ScreenIndex) ==
    [st EXCEPT !.CurrentScreenIndex = ScreenIndex,
               !.CurrentLineIndex = 0,
               !.ScreenElapsedTime = 0,
               !.LineElapsedTime = 0,
               !.PauseElapsedTime = 0,
               !.ProcessedTimedEventIndices = {},
               !.LineStartTimes = InitStartTimes(Len(ScreenAt(st).Lines)),
               !.CurrentState = "TransitioningScreen",
               !.TransitionElapsedTime = 0]

\* the reset DebugSkipToPreviousScreen and DebugJumpToScreen share
EnterScreen(st, ScreenIndex) ==
    LET s1 == [st EXCEPT !.CurrentScreenIndex = ScreenIndex]
    IN  [s1 EXCEPT !.CurrentLineIndex = 0,
                   !.ScreenElapsedTime = 0,
                   !.LineElapsedTime = 0,
                   !.PauseElapsedTime = 0,
                   !.ProcessedTimedEventIndices = {},
                   !.LineStartTimes = InitStartTimes(Len(ScreenAt(s1).Lines)),
                   !.CurrentState = "TransitioningScreen",
                   !.TransitionElapsedTime = 0]

\* DebugSkipToPreviousScreen without the test that a story plays
DebugSkipBackWhenNotPlaying ==
    /\ IF CurrentScreenIndex <= 0 THEN UNCHANGED playerVars
       ELSE SetPlayer(EnterScreen(Player, CurrentScreenIndex - 1))
    /\ lastCall' = Call("DebugSkipToPreviousScreen", TRUE, <<>>)
    /\ UNCHANGED <<configVars, CachedStories, fnIn, fnOut, threadVars>>

DebugSkipToPreviousScreen ==
    /\ IF ~bIsPlaying THEN UNCHANGED playerVars
       ELSE IF CurrentScreenIndex <= 0 THEN UNCHANGED playerVars
       ELSE SetPlayer(EnterScreen(Player, CurrentScreenIndex - 1))
    /\ lastCall' = Call("DebugSkipToPreviousScreen", TRUE, <<>>)
    /\ UNCHANGED <<configVars, CachedStories, fnIn, fnOut, threadVars>>

\* the screen indices a caller passes: valid ones, a negative one, one past
\* the end of the longest story
JumpTargets == -1..4

DebugJumpToScreen(ScreenIndex) ==
    /\ IF ~bIsPlaying THEN UNCHANGED playerVars
       ELSE IF ScreenIndex < 0 \/ ScreenIndex >= Len(CurrentStory.Screens)
       THEN UNCHANGED playerVars
       ELSE SetPlayer(EnterScreen(Player, ScreenIndex))
    /\ lastCall' = Call("DebugJumpToScreen", TRUE, <<>>)
    /\ UNCHANGED <<configVars, CachedStories, fnIn, fnOut, threadVars>>

DebugSkipCurrentLine ==
    /\ IF ~bIsPlaying THEN UNCHANGED playerVars
       ELSE IF CurrentState # "PlayingLine" THEN UNCHANGED playerVars
       ELSE LET RemainingTime == LineDuration - LineElapsedTime
            IN  SetPlayer(StartPause(
                    [Player EXCEPT !.ScreenElapsedTime = @ + RemainingTime,
                                   !.LineElapsedTime = LineDuration]))
    /\ lastCall' = Call("DebugSkipCurrentLine", TRUE, <<>>)
    /\ UNCHANGED <<configVars, CachedStories, fnIn, fnOut, threadVars>>

-----------------------------------------------------------------------------
(***************************************************************************)
(* The subsystem after construction and Initialize, and its life           *)
(***************************************************************************)

\* the member initialisers of ShortStorySubsystem.h
InitPlayer ==
    /\ CurrentStory = DefaultStory
    /\ CurrentScreenIndex = 0
    /\ CurrentLineIndex = 0
    /\ LineElapsedTime = 0
    /\ LineDuration = 0
    /\ PauseElapsedTime = 0
    /\ PauseDuration = 0
    /\ ScreenElapsedTime = 0
    /\ TransitionElapsedTime = 0
    /\ LineStartTimes = <<>>
    /\ bIsPlaying = FALSE
    /\ bIsPaused = FALSE
    /\ CurrentState = "Idle"
    /\ ProcessedTimedEventIndices = {}
    /\ TickerHandle = FALSE

\* Initialize: LoadTimingConfigs over the config directory
InitConfig(dir) ==
    LET cfg == LoadTimingConfigs(dir)
    IN  /\ SpeedTimings = cfg.SpeedTimings
        /\ PauseDurations = cfg.PauseDurations
        /\ ScreenTransitionPauseSeconds = cfg.ScreenTransitionPauseSeconds
        /\ FadeWindowSeconds = cfg.FadeWindowSeconds
        /\ LineBreakPercent = cfg.LineBreakPercent

Init ==
    /\ InitConfig(InstalledConfigDir)
    /\ CachedStories = [k \in {} |-> DefaultStory]
    /\ InitPlayer
    /\ SingleThread
    /\ lastCall = Call("Initialize", TRUE, <<>>)
    /\ fnIn = NoCall
    /\ fnOut = NoCall

Next ==
    \/ \E name \in StoryFileNames : StartStory(name)
    \/ StopStory
    \/ \E b \in BOOLEAN : SetPaused(b)
    \/ \E dt \in DeltaTimes : Tick(dt)
    \/ DebugSkipToNextScreen
    \/ DebugSkipToPreviousScreen
    \/ \E i \in JumpTargets : DebugJumpToScreen(i)
    \/ DebugSkipCurrentLine

Spec == Init /\ [][Next]_vars

\* the cache under direct calls, with a player that starts and stops
NextCache ==
    \/ \E name \in StoryFileNames, b \in BOOLEAN : LoadStoryCall(name, b)
    \/ \E name \in StoryFileNames : ClearCachedStory(name)
    \/ ClearAllCachedStories
    \/ \E name \in StoryFileNames : StartStory(name)
    \/ StopStory

SpecCache == Init /\ [][NextCache]_vars

\* the cache under direct calls while the player is ticked through a story
SpecPlayCache ==
    Init /\ [][NextCache \/ \E DeltaTime \in DeltaTimes : Tick(DeltaTime)]_vars

\* the frame deltas of a ticker whose frames take 0.2 s, or 5 s when the
\* game hitches
LiveDeltaTimes == {20, 500}

\* one playback: StartStory on the idle player, and from then on only the
\* ticker, which the core ticker calls every frame while it is registered
NextLive ==
    \/ \E name \in StoryFileNames : CurrentState = "Idle" /\ StartStory(name)
    \/ \E DeltaTime \in LiveDeltaTimes : Tick(DeltaTime)

SpecLive ==
    /\ Init
    /\ [][NextLive]_vars
    /\ WF_vars(\E DeltaTime \in LiveDeltaTimes : Tick(DeltaTime))

\* the cache functions on a cache filled before the files last changed: an
\* entry holds what its file held then (here the story of b.tos), whether
\* the file is since edited (a.tos), broken (bad.tos) or deleted (gone.tos)
InitReload ==
    /\ InitConfig(InstalledConfigDir)
    /\ \E Loaded \in SUBSET {"a.tos", "bad.tos", "gone.tos"} :
          CachedStories =
             [k \in Loaded |->
                 [ParsedFiles["b.tos"].Story EXCEPT !.SourceFileName = k]]
    /\ InitPlayer
    /\ SingleThread
    /\ lastCall = Call("Initialize", TRUE, <<>>)
    /\ fnIn = NoCall
    /\ fnOut = NoCall

SpecReload == InitReload /\ [][NextCache]_vars

-----------------------------------------------------------------------------
(***************************************************************************)
(* The duration calculator on its own: the subsystem initialised over one  *)
(* of several config directories, then asked for durations and character   *)
(* indices                                                                 *)
(***************************************************************************)

\* per-letter time 0 in Standard.csv
ZeroPerLetterConfigDir ==
    [InstalledConfigDir EXCEPT
        !.Standard = CsvFile(SpeedRows(0, 10, 20, 10, 30, 0))]

\* Slow.csv is not there
NoSlowConfigDir == [InstalledConfigDir EXCEPT !.Slow = MissingFile]

\* Global.csv is not there: LoadTimingConfigs returns before the speed files
NoGlobalConfigDir == [InstalledConfigDir EXCEPT !.Global = MissingFile]

ConfigDirs ==
    {InstalledConfigDir, ZeroPerLetterConfigDir, NoSlowConfigDir,
     NoGlobalConfigDir}

\* texts with and without the characters that add time
DurationTexts ==
    {<<>>, <<"a">>, <<"a", "b">>, <<"a", " ", "b">>, <<"a", ".">>,
     <<"a", ",", ";", ":">>}

DurationLines ==
    {[DefaultLine EXCEPT !.Text = t, !.AnimationType = a, !.Speed = sp] :
        t \in DurationTexts, a \in Animations, sp \in Speeds}

\* the times a caller asks the character index at
QueryTimes(Text, Speed) ==
    {-10, 0, 5, 15, 30} \cup {CalculateTypewriterDuration(Text, Speed)}

InitDur ==
    /\ \E dir \in ConfigDirs : InitConfig(dir)
    /\ CachedStories = [k \in {} |-> DefaultStory]
    /\ InitPlayer
    /\ SingleThread
    /\ lastCall = Call("Initialize", TRUE, <<>>)
    /\ fnIn = NoCall
    /\ fnOut = NoCall

CalculateLineDurationCall(Line) ==
    /\ fnIn' = [op |-> "CalculateLineDuration", Line |-> Line]
    /\ fnOut' = [op |-> "CalculateLineDuration",
                 Duration |-> CalculateLineDuration(Line)]
    /\ UNCHANGED <<configVars, CachedStories, playerVars, lastCall, threadVars>>

GetCharacterIndexAtTimeCall(Text, Speed, Time) ==
    /\ fnIn' = [op |-> "GetCharacterIndexAtTime", Text |-> Text,
                Speed |-> Speed, Time |-> Time]
    /\ fnOut' = [op |-> "GetCharacterIndexAtTime",
                 Index |-> GetCharacterIndexAtTime(Text, Speed, Time)]
    /\ UNCHANGED <<configVars, CachedStories, playerVars, lastCall, threadVars>>

NextDur ==
    \/ \E Line \in DurationLines : CalculateLineDurationCall(Line)
    \/ \E Text \in DurationTexts, Speed \in Speeds :
          \E Time \in QueryTimes(Text, Speed) :
             GetCharacterIndexAtTimeCall(Text, Speed, Time)

SpecDur == InitDur /\ [][NextDur]_vars

-----------------------------------------------------------------------------
(***************************************************************************)
(* The parser on its own: ParseStoryFromString over every text of at most  *)
(* MaxParseLines lines of a catalogue                                      *)
(***************************************************************************)

\* section headers, metadata with and without a value, a finisher line, one
\* with an unknown animation, a continuation line
ParseCatalogue ==
    {ln.Story, ln.Title, ln.NoTitle, ln.Screen1, ln.UnknownSection, ln.ParaB,
     ln.BadAnim, <<"x">>}

MaxParseLines == 4

ParseTexts ==
    UNION {[1..n -> ParseCatalogue] : n \in 0..MaxParseLines}

\* the text to parse is drawn here; the one step parses it
InitParse ==
    /\ InitConfig(InstalledConfigDir)
    /\ CachedStories = [k \in {} |-> DefaultStory]
    /\ InitPlayer
    /\ SingleThread
    /\ lastCall = Call("Initialize", TRUE, <<>>)
    /\ \E StoryText \in ParseTexts :
          fnIn = [op |-> "ParseStoryFromString", StoryText |-> StoryText,
                  MaxLineLength |-> MaxLineLength]
    /\ fnOut = NoCall

ParseStoryFromStringCall ==
    LET Of(r) ==
            fnOut' = [op |-> "ParseStoryFromString", Success |-> r.Success,
                      Story |-> r.Story, Errors |-> r.Errors]
    IN  /\ fnIn.op = "ParseStoryFromString"
        /\ fnOut = NoCall
        /\ Of(ParseStoryFromString(fnIn.StoryText, fnIn.MaxLineLength))
        /\ UNCHANGED <<configVars, CachedStories, playerVars, lastCall, fnIn, threadVars>>

NextParse == ParseStoryFromStringCall

SpecParse == InitParse /\ [][NextParse]_vars

-----------------------------------------------------------------------------
(***************************************************************************)
(* The content of one screen: ParseStoryFromString over a [STORY] section, *)
(* one [SCREEN] section and at most MaxContentLines content lines, for     *)
(* several values of MaxLineLength                                         *)
(***************************************************************************)

\* content lines: continuation lines, finisher lines, finisher lines whose
\* third field is not a parameter the parser knows, one without a text,
\* one that sets every attribute, lines with a manual break and a finisher
\* whose text is the spacer token
cl ==
    [
     \* A
     A |-> <<"A">>,
     \* B
     B |-> <<"B">>,
     \* Final | typewriter | pause=long
     Final |-> <<"F","i","n","a","l"," ","|"," ","t","y","p","e","w","r","i","t","e","r"," ","|"," ","p","a","u","s","e","=","l","o","n","g">>,
     \* Hi there | typewriter
     HiThere |-> <<"H","i"," ","t","h","e","r","e"," ","|"," ","t","y","p","e","w","r","i","t","e","r">>,
     \* Go | typewriter | bogus=1
     BadKey |-> <<"G","o"," ","|"," ","t","y","p","e","w","r","i","t","e","r"," ","|"," ","b","o","g","u","s","=","1">>,
     \* Go | typewriter | speed=warp
     BadSpeed |-> <<"G","o"," ","|"," ","t","y","p","e","w","r","i","t","e","r"," ","|"," ","s","p","e","e","d","=","w","a","r","p">>,
     \* Go | typewriter | pause=never
     BadPause |-> <<"G","o"," ","|"," ","t","y","p","e","w","r","i","t","e","r"," ","|"," ","p","a","u","s","e","=","n","e","v","e","r">>,
     \* Go | typewriter | effect=boom
     BadEffect |-> <<"G","o"," ","|"," ","t","y","p","e","w","r","i","t","e","r"," ","|"," ","e","f","f","e","c","t","=","b","o","o","m">>,
     \* Go | typewriter | offset=5
     BadOffset |-> <<"G","o"," ","|"," ","t","y","p","e","w","r","i","t","e","r"," ","|"," ","o","f","f","s","e","t","=","5">>,
     \* Go | typewriter | fast
     BadShape |-> <<"G","o"," ","|"," ","t","y","p","e","w","r","i","t","e","r"," ","|"," ","f","a","s","t">>,
     \* Hi there
     Hi |-> <<"H","i"," ","t","h","e","r","e">>,
     \* | typewriter
     EmptyText |-> <<"|"," ","t","y","p","e","w","r","i","t","e","r">>,
     \* Z y | topdown | speed=fast | pause=long | effect=shake_low | offset=1,2
     Styled |-> <<"Z"," ","y"," ","|"," ","t","o","p","d","o","w","n"," ","|"," ","s","p","e","e","d","=","f","a","s","t"," ","|"," ","p","a","u","s","e","=","l","o","n","g"," ","|"," ","e","f","f","e","c","t","=","s","h","a","k","e","_","l","o","w"," ","|"," ","o","f","f","s","e","t","=","1",",","2">>,
     \* A \\ Hi there
     Broken |-> <<"A"," ","\\","\\"," ","H","i"," ","t","h","e","r","e">>,
     \* B \\ Hi there | paragraph | pause=short
     BrokenFinal |-> <<"B"," ","\\","\\"," ","H","i"," ","t","h","e","r","e"," ","|"," ","p","a","r","a","g","r","a","p","h"," ","|"," ","p","a","u","s","e","=","s","h","o","r","t">>,
     \* [SPACER] | typewriter | pause=long
     SpacerFinal |-> <<"[","S","P","A","C","E","R","]"," ","|"," ","t","y","p","e","w","r","i","t","e","r"," ","|"," ","p","a","u","s","e","=","l","o","n","g">>
    ]

MaxContentLines == 3

\* [STORY] with a title, one [SCREEN], then the content lines
ContentTexts ==
    {<<ln.Story, ln.Title, ln.Screen1>> \o body :
        body \in UNION {[1..n -> {cl[f] : f \in DOMAIN cl}] :
                           n \in 0..MaxContentLines}}

\* no wrapping (zero and below), limits below, at and above the length of
\* "Hi there", and the default of the subsystem
MaxLineLengths == {-1, 0, 2, 7, 8, MaxLineLength}

InitContent ==
    /\ InitConfig(InstalledConfigDir)
    /\ CachedStories = [k \in {} |-> DefaultStory]
    /\ InitPlayer
    /\ SingleThread
    /\ lastCall = Call("Initialize", TRUE, <<>>)
    /\ \E StoryText \in ContentTexts, MaxLen \in MaxLineLengths :
          fnIn = [op |-> "ParseStoryFromString", StoryText |-> StoryText,
                  MaxLineLength |-> MaxLen]
    /\ fnOut = NoCall

SpecContent == InitContent /\ [][NextParse]_vars

-----------------------------------------------------------------------------
(***************************************************************************)
(* SplitTextByLength step by step: the call with its early returns, then   *)
(* one pass of the while loop at a time, over every text of at most        *)
(* MaxTextLen characters of letters and spaces                             *)
(***************************************************************************)

MaxTextLen == 6
MaxSplitLen == 3

\* the Text and MaxLen arguments are drawn here
InitSplit ==
    /\ InitConfig(InstalledConfigDir)
    /\ CachedStories = [k \in {} |-> DefaultStory]
    /\ InitPlayer
    /\ SingleThread
    /\ lastCall = Call("Initialize", TRUE, <<>>)
    /\ \E n \in 0..MaxTextLen, MaxLen \in 0..MaxSplitLen :
          \E Text \in [1..n -> {"a", "b", " "}] :
             fnIn = [op |-> "SplitTextByLength", Text |-> Text, MaxLen |-> MaxLen]
    /\ fnOut = NoCall

\* entry of SplitTextByLength, up to the while loop
SplitTextByLengthCall ==
    /\ fnIn.op = "SplitTextByLength"
    /\ fnOut = NoCall
    /\ fnOut' =
          IF fnIn.Text = <<>>
          THEN [op |-> "SplitTextByLength", pc |-> "return", Result |-> <<>>,
                Remaining |-> <<>>, SplitIndex |-> -1]
          ELSE IF fnIn.MaxLen <= 0
          THEN [op |-> "SplitTextByLength", pc |-> "return",
                Result |-> <<fnIn.Text>>, Remaining |-> <<>>, SplitIndex |-> -1]
          ELSE [op |-> "SplitTextByLength", pc |-> "while", Result |-> <<>>,
                Remaining |-> fnIn.Text, SplitIndex |-> -1]
    /\ UNCHANGED <<configVars, CachedStories, playerVars, lastCall, fnIn, threadVars>>

\* one test of the while condition: a pass of the loop, or the exit with
\* what remains
SplitTextByLengthLoop ==
    LET Pass(SplitIndex) ==
            [fnOut EXCEPT
               !.Result = Append(@, TrimStartAndEnd(Left(fnOut.Remaining, SplitIndex))),
               !.Remaining = TrimStart(Mid(fnOut.Remaining, SplitIndex)),
               !.SplitIndex = SplitIndex]
    IN  /\ fnOut.op = "SplitTextByLength"
        /\ fnOut.pc = "while"
        /\ fnOut' =
              IF Len(fnOut.Remaining) > fnIn.MaxLen
              THEN Pass(FindSplitIndex(fnOut.Remaining, fnIn.MaxLen))
              ELSE [fnOut EXCEPT
                      !.pc = "return",
                      !.Result = IF fnOut.Remaining # <<>>
                                 THEN Append(@, TrimStartAndEnd(fnOut.Remaining))
                                 ELSE @]
        /\ UNCHANGED <<configVars, CachedStories, playerVars, lastCall, fnIn, threadVars>>

SpecSplit ==
    InitSplit /\ [][SplitTextByLengthCall \/ SplitTextByLengthLoop]_vars

\* the function runs on: nothing else is scheduled inside it
SpecSplitLive ==
    SpecSplit /\ WF_vars(SplitTextByLengthCall \/ SplitTextByLengthLoop)

-----------------------------------------------------------------------------
(***************************************************************************)
(* The story cache under two threads.  A thread is idle or inside one of   *)
(* LoadStory, IsStoryCached, ClearCachedStory, ClearAllCachedStories; a    *)
(* step is what the function does up to its next FScopeLock, or one        *)
(* critical section.  prev is the function the thread called before;       *)
(* bBeforeClear records that the thread has made no call since the last    *)
(* ClearAllCachedStories emptied the map.                                  *)
(***************************************************************************)

\* a thread outside, or at position pc inside, a cache function
Thread(pc, op, StoryFileName, bForceReload, prev) ==
    [pc |-> pc, op |-> op, StoryFileName |-> StoryFileName,
     bForceReload |-> bForceReload, prev |-> prev, bBeforeClear |-> FALSE]

InitThreads ==
    /\ InitConfig(InstalledConfigDir)
    /\ CachedStories = [k \in {} |-> DefaultStory]
    /\ InitPlayer
    /\ lastCall = Call("Initialize", TRUE, <<>>)
    /\ fnIn = NoCall
    /\ fnOut = NoCall
    /\ CacheMutex = "free"
    /\ threads = [t \in {"game", "loader"} |->
                     Thread("idle", "none", "", FALSE, "none")]

\* the thread calls a cache function and runs it up to its first FScopeLock
\* (a forced LoadStory: up to the parser)
ThreadCall(t) ==
    /\ threads[t].pc = "idle"
    /\ \E op \in {"LoadStory", "IsStoryCached", "ClearCachedStory",
                  "ClearAllCachedStories"},
          StoryFileName \in DOMAIN Disk, bForceReload \in BOOLEAN :
          /\ op = "ClearAllCachedStories" => StoryFileName = "a.tos"
          /\ op # "LoadStory" => ~bForceReload
          /\ threads' =
                [threads EXCEPT ![t] =
                    Thread(IF bForceReload THEN "parse" ELSE "lock", op,
                           StoryFileName, bForceReload, threads[t].op)]
    /\ UNCHANGED <<configVars, CachedStories, playerVars, lastCall, fnIn,
                   fnOut, CacheMutex>>

\* FScopeLock Lock(&CacheMutex): the thread waits until the lock is free
ScopeLock(t) ==
    /\ threads[t].pc \in {"lock", "lockAdd"}
    /\ CacheMutex = "free"
    /\ CacheMutex' = t
    /\ threads' =
          [threads EXCEPT ![t].pc = IF @ = "lock" THEN "locked" ELSE "add"]
    /\ UNCHANGED <<configVars, CachedStories, playerVars, lastCall, fnIn,
                   fnOut>>

\* LoadStory: the cache check; the lock is released at the end of its scope
LoadStoryCheck(t) ==
    /\ threads[t].pc = "locked"
    /\ threads[t].op = "LoadStory"
    /\ threads' =
          [threads EXCEPT ![t].pc =
              IF threads[t].StoryFileName \in DOMAIN CachedStories
              THEN "idle" ELSE "parse"]
    /\ CacheMutex' = "free"
    /\ UNCHANGED <<configVars, CachedStories, playerVars, lastCall, fnIn,
                   fnOut>>

\* LoadStory: ParseStoryFile, outside any lock
LoadStoryParse(t) ==
    /\ threads[t].pc = "parse"
    /\ threads' =
          [threads EXCEPT ![t].pc =
              IF ParsedFiles[threads[t].StoryFileName].Success
              THEN "lockAdd" ELSE "idle"]
    /\ UNCHANGED <<configVars, CachedStories, playerVars, lastCall, fnIn,
                   fnOut, CacheMutex>>

\* LoadStory: CachedStories.Add of the story it parsed, in a second scope
LoadStoryAdd(t) ==
    /\ threads[t].pc = "add"
    /\ CachedStories' = LoadStory(threads[t].StoryFileName, TRUE).Cache
    /\ threads' = [threads EXCEPT ![t].pc = "idle"]
    /\ CacheMutex' = "free"
    /\ UNCHANGED <<configVars, playerVars, lastCall, fnIn, fnOut>>

\* the body of IsStoryCached, ClearCachedStory or ClearAllCachedStories,
\* which is one scope of the lock
LockedCacheCall(t) ==
    /\ threads[t].pc = "locked"
    /\ threads[t].op # "LoadStory"
    /\ CachedStories' =
          CASE threads[t].op = "ClearCachedStory" ->
                  [k \in DOMAIN CachedStories \ {threads[t].StoryFileName}
                      |-> CachedStories[k]]
            [] threads[t].op = "ClearAllCachedStories" ->
                  [k \in {} |-> DefaultStory]
            [] OTHER -> CachedStories
    /\ threads' =
          IF threads[t].op = "ClearAllCachedStories"
          THEN [u \in DOMAIN threads |->
                   [threads[u] EXCEPT
                      !.pc = IF u = t THEN "idle" ELSE @,
                      !.bBeforeClear = TRUE]]
          ELSE [threads EXCEPT ![t].pc = "idle"]
    /\ CacheMutex' = "free"
    /\ UNCHANGED <<configVars, playerVars, lastCall, fnIn, fnOut>>

SpecThreads ==
    InitThreads /\ [][\E t \in DOMAIN threads :
                         \/ ThreadCall(t)
                         \/ ScopeLock(t)
                         \/ LoadStoryCheck(t)
                         \/ LoadStoryParse(t)
                         \/ LoadStoryAdd(t)
                         \/ LockedCacheCall(t)]_vars

-----------------------------------------------------------------------------
(***************************************************************************)
(* Properties of the player, checked under Spec                            *)
(***************************************************************************)

\* C1: a Tick while the player is paused, or while nothing plays, is a no-op:
\* the screen, line, pause and transition timers, the fired events, the line
\* start times, the cursors and the playback state stay as they were
TickPausedIsNoOp ==
    [][(lastCall'.op = "Tick" /\ (~bIsPlaying \/ bIsPaused))
          => UNCHANGED playerVars]_vars

\* a Tick arrived while a story was playing and paused
TickPausedHappens ==
    /\ lastCall.op = "Tick"
    /\ bIsPlaying
    /\ bIsPaused
    /\ ScreenElapsedTime > 0

\* the timed events of the screen the player is on
CurrentTimedEvents ==
    IF CurrentScreenIndex < Len(CurrentStory.Screens)
    THEN CurrentStory.Screens[CurrentScreenIndex + 1].TimedEvents
    ELSE <<>>

\* the events an unpaused Tick of DeltaTime reaches: not fired yet in this
\* visit, StartTime at most the updated screen time
DueEvents(DeltaTime) ==
    {i \in 0..(Len(CurrentTimedEvents) - 1) :
        /\ i \notin ProcessedTimedEventIndices
        /\ CurrentTimedEvents[i + 1].StartTime
              <= ScreenElapsedTime + DeltaTime}

\* C2: during one visit to a screen every timed event is marked fired at most
\* once, in the first unpaused Tick whose updated screen time is at least its
\* StartTime, in whatever order the events are declared; every change of
\* screen empties the fired set, so a screen visited again fires again
TimedEventsFireOncePerVisit ==
    [][/\ \A dt \in DeltaTimes :
             (Tick(dt) /\ bIsPlaying /\ ~bIsPaused) =>
                /\ {lastCall'.Log[k] : k \in DOMAIN lastCall'.Log}
                      = DueEvents(dt)
                /\ Len(lastCall'.Log) = Cardinality(DueEvents(dt))
                /\ CurrentScreenIndex' = CurrentScreenIndex =>
                      ProcessedTimedEventIndices'
                         = ProcessedTimedEventIndices \cup DueEvents(dt)
       /\ ProcessedTimedEventIndices' # ProcessedTimedEventIndices =>
             \/ ProcessedTimedEventIndices' = {}
             \/ /\ lastCall'.op = "Tick"
                /\ ProcessedTimedEventIndices
                      \subseteq ProcessedTimedEventIndices'
       /\ (bIsPlaying' /\ CurrentScreenIndex' # CurrentScreenIndex) =>
             ProcessedTimedEventIndices' = {}
       /\ (lastCall'.op = "StartStory" /\ lastCall'.ret) =>
             ProcessedTimedEventIndices' = {}
       /\ \A i \in JumpTargets :
             (DebugJumpToScreen(i) /\ bIsPlaying
                 /\ i >= 0 /\ i < Len(CurrentStory.Screens)) =>
                ProcessedTimedEventIndices' = {}
      ]_vars

\* the event declared first, with the later StartTime, fires in a Tick after
\* the one that fired the event declared second
LaterEventFiresSecond ==
    /\ lastCall.op = "Tick"
    /\ lastCall.Log = <<0>>
    /\ ProcessedTimedEventIndices = {0, 1}
    /\ CurrentTimedEvents[1].StartTime > CurrentTimedEvents[2].StartTime

\* C3: after StopStory, in whatever state it is called, Completed included,
\* the state is Idle, the cursors, every elapsed-time counter, the fired set
\* and the start times are cleared and the ticker is detached
StopStoryClearsPlayer ==
    lastCall.op = "StopStory" =>
        /\ CurrentState = "Idle"
        /\ ~bIsPlaying
        /\ CurrentScreenIndex = 0
        /\ CurrentLineIndex = 0
        /\ ScreenElapsedTime = 0
        /\ LineElapsedTime = 0
        /\ PauseElapsedTime = 0
        /\ TransitionElapsedTime = 0
        /\ ProcessedTimedEventIndices = {}
        /\ LineStartTimes = <<>>
        /\ ~TickerHandle

\* the story a StartStory of name gets from LoadStory is one it refuses
RefusedStory(name) ==
    LET Of(r) ==
            IF ~r.Success THEN TRUE
            ELSE IF Len(r.Story.Screens) = 0 THEN TRUE
            ELSE Len(r.Story.Screens[1].Lines) = 0
    IN  Of(LoadStory(name, FALSE))

\* C4: a StartStory whose load fails, or whose story has no screens, or whose
\* first screen has no lines, returns failure and leaves every variable of the
\* player as it was: a story that plays goes on playing
FailedStartLeavesPlayer ==
    [][\A name \in StoryFileNames :
          (StartStory(name) /\ RefusedStory(name)) =>
             (~lastCall'.ret /\ UNCHANGED playerVars)]_vars

\* a StartStory failed while a story was playing and had gone some way
FailedStartWhilePlaying ==
    /\ lastCall.op = "StartStory"
    /\ ~lastCall.ret
    /\ bIsPlaying
    /\ CurrentScreenIndex > 0

\* C5: a Debug operation whose precondition fails leaves every variable of
\* the player as it was: a jump to an index below 0 or not below the screen
\* count, a skip forward on the last screen, a skip back on screen 0, a line
\* skip outside PlayingLine, any of them while nothing plays
RefusedDebugLeavesPlayer ==
    [][/\ \A i \in JumpTargets :
             (DebugJumpToScreen(i)
                 /\ (~bIsPlaying \/ i < 0 \/ i >= Len(CurrentStory.Screens)))
                => UNCHANGED playerVars
       /\ (DebugSkipToNextScreen
              /\ (~bIsPlaying
                    \/ CurrentScreenIndex = Len(CurrentStory.Screens) - 1))
             => UNCHANGED playerVars
       /\ (DebugSkipToPreviousScreen
              /\ (~bIsPlaying \/ CurrentScreenIndex = 0))
             => UNCHANGED playerVars
       /\ (DebugSkipCurrentLine
              /\ (~bIsPlaying \/ CurrentState # "PlayingLine"))
             => UNCHANGED playerVars
      ]_vars

\* a skip forward was refused on the last screen of a playing story
SkipRefusedOnLastScreen ==
    /\ lastCall.op = "DebugSkipToNextScreen"
    /\ bIsPlaying
    /\ CurrentScreenIndex = Len(CurrentStory.Screens) - 1
    /\ CurrentScreenIndex > 0

\* C6: Completed is terminal until a StartStory succeeds: Tick, SetPaused and
\* the Debug operations change nothing, and no step but a successful
\* StartStory leaves the state
CompletedIsTerminal ==
    [][CurrentState = "Completed" =>
          /\ lastCall'.op \in {"Tick", "SetPaused", "DebugSkipToNextScreen",
                               "DebugSkipToPreviousScreen",
                               "DebugJumpToScreen", "DebugSkipCurrentLine"}
                => UNCHANGED playerVars
          /\ CurrentState' # "Completed"
                => (lastCall'.op = "StartStory" /\ lastCall'.ret)
      ]_vars

\* a Debug operation arrived after the story had completed
DebugCallAfterCompleted ==
    /\ CurrentState = "Completed"
    /\ lastCall.op = "DebugSkipToPreviousScreen"
    /\ CurrentScreenIndex = Len(CurrentStory.Screens)

\* the lines of the screen the player is on
CurrentLines ==
    IF CurrentScreenIndex < Len(CurrentStory.Screens)
    THEN CurrentStory.Screens[CurrentScreenIndex + 1].Lines
    ELSE <<>>

\* the 0-based index of the first line of the run of one animation type that
\* ends at line Last
RECURSIVE RunStart(_, _)
RunStart(Lines, Last) ==
    IF Last = 0 THEN 0
    ELSE IF Lines[Last].AnimationType # Lines[Last + 1].AnimationType THEN Last
    ELSE RunStart(Lines, Last - 1)

\* the largest, over lines First..Last, of the cascade delay the line's start
\* time was given plus the line's own Duration
MaxDelayPlusDuration(Lines, First, Last) ==
    LET Finish(i) == (LineStartTimes[i + 1] - LineStartTimes[First + 1])
                        + CalculateLineDuration(Lines[i + 1])
    IN  CHOOSE m \in {Finish(i) : i \in First..Last} :
            \A i \in First..Last : Finish(i) <= m

\* C7: while a block plays, the block's duration is the largest over the run
\* of the cascade delay used for a line's start time plus its Duration: for a
\* TopDown block of 3 lines of Duration d it is 2 x 0.2 + d
BlockDurationIsMaxFinish ==
    (/\ bIsPlaying
     /\ CurrentState = "PlayingLine"
     /\ CurrentLineIndex < Len(CurrentLines)
     /\ CurrentLines[CurrentLineIndex + 1].AnimationType
           \in {"Paragraph", "TopDown"})
    => LineDuration
          = MaxDelayPlusDuration(CurrentLines,
                                 RunStart(CurrentLines, CurrentLineIndex),
                                 CurrentLineIndex)

-----------------------------------------------------------------------------
(***************************************************************************)
(* Properties of the duration calculator, checked under SpecDur            *)
(***************************************************************************)

\* C8: the Duration of a line whose animation is not Typewriter is the
\* BlockDuration of the line's speed category, whatever its Text
BlockDurationWhateverText ==
    (fnOut.op = "CalculateLineDuration"
        /\ fnIn.Line.AnimationType # "Typewriter") =>
       /\ fnOut.Duration = GetSpeedTiming(fnIn.Line.Speed).BlockDuration
       /\ fnIn.Line.Speed \in DOMAIN SpeedTimings =>
             fnOut.Duration = SpeedTimings[fnIn.Line.Speed].BlockDuration
       /\ \A t \in DurationTexts :
             CalculateLineDuration([fnIn.Line EXCEPT !.Text = t])
                = fnOut.Duration

\* a Snake line whose letters would take another time than its block does
BlockLineWithText ==
    /\ fnOut.op = "CalculateLineDuration"
    /\ fnIn.Line.AnimationType = "Snake"
    /\ fnIn.Line.Speed = "Slow"
    /\ "Slow" \in DOMAIN SpeedTimings
    /\ Len(fnIn.Line.Text) = 3
    /\ CalculateTypewriterDuration(fnIn.Line.Text, fnIn.Line.Speed)
          # fnOut.Duration

\* C9: for every text and every timing profile, a zero per-letter time and
\* the empty text included, the character index at the time
\* CalculateTypewriterDuration gives for the text is the length of the text
WholeTextAtDuration ==
    (fnOut.op = "GetCharacterIndexAtTime"
        /\ fnIn.Time = CalculateTypewriterDuration(fnIn.Text, fnIn.Speed))
       => fnOut.Index = Len(fnIn.Text)

-----------------------------------------------------------------------------
(***************************************************************************)
(* Properties of the parser, checked under SpecParse                       *)
(***************************************************************************)

\* a line of the text is the [STORY] header
StoryHeaderSeen(StoryText) ==
    \E i \in DOMAIN StoryText :
       LET Of(Line) ==
               /\ Line # <<>>
               /\ Head(Line) = "["
               /\ Line[Len(Line)] = "]"
               /\ ToLower(TrimStartAndEnd(SubSeq(Line, 2, Len(Line) - 1)))
                     = ToLower(kw.STORY)
       IN  Of(TrimStartAndEnd(StoryText[i]))

\* C10: ParseStoryFromString succeeds exactly when a [STORY] header was seen,
\* the Title is not empty and there is at least one Screen; the diagnostics
\* of single lines never by themselves turn a success into a failure
ParseSucceedsIffComplete ==
    fnOut.op = "ParseStoryFromString" =>
        (fnOut.Success <=>
            /\ StoryHeaderSeen(fnIn.StoryText)
            /\ fnOut.Story.Title # <<>>
            /\ Len(fnOut.Story.Screens) >= 1)

\* a text parsed with success and with a diagnostic of one of its lines
SuccessWithLineDiagnostic ==
    /\ fnOut.op = "ParseStoryFromString"
    /\ fnOut.Success
    /\ \E k \in DOMAIN fnOut.Errors : fnOut.Errors[k].Line > 0

\* the diagnostics of ParseStoryFromString whose text contains "Missing"
MissingDiagnostics ==
    {"Missing [STORY] section", "Missing 'title' in [STORY] section"}

\* C11: a text without any [STORY] header, the empty text included and
\* whatever the number of [SCREEN] sections, is parsed without success and
\* with a diagnostic that contains "Missing"
NoStoryHeaderSaysMissing ==
    (fnOut.op = "ParseStoryFromString" /\ ~StoryHeaderSeen(fnIn.StoryText)) =>
        /\ ~fnOut.Success
        /\ \E k \in DOMAIN fnOut.Errors :
              fnOut.Errors[k].Msg \in MissingDiagnostics

\* the content lines of the parsed text (after the three header lines)
ContentBody == SubSeq(fnIn.StoryText, 4, Len(fnIn.StoryText))

\* the Lines of the only screen of the parsed story
ContentLines == fnOut.Story.Screens[1].Lines

\* no text of the call is longer than the limit, or the limit is off
NoWrapAt(Length) == fnIn.MaxLineLength <= 0 \/ fnIn.MaxLineLength >= Length

\* the pause kinds of a sequence of Lines
PausesOf(Lines) == [i \in DOMAIN Lines |-> Lines[i].PauseDuration]

ContinuationBlockParsed ==
    /\ fnOut.op = "ParseStoryFromString"
    /\ ContentBody = <<cl.A, cl.B, cl.Final>>
    /\ NoWrapAt(5)

\* C12 as stated: two continuation lines A and B and the finisher
\* "Final | typewriter | pause=long", none of them wrapped, give Lines with the
\* pauses LineBreak, LineBreak, Long and then one spacer with pause None
ContinuationPausesAreLineBreak ==
    ContinuationBlockParsed =>
        /\ fnOut.Success
        /\ Len(fnOut.Story.Screens) = 1
        /\ PausesOf(ContentLines) = <<"LineBreak", "LineBreak", "Long", "None">>
        /\ ContentLines[4] = SpacerLine

\* C12, amended: the continuation lines carry the pause None (the pause of
\* the finisher is not passed to them): None, None, Long, then one spacer
\* with pause None, and the texts A, B, Final in that order
ContinuationPausesAreNone ==
    ContinuationBlockParsed =>
        /\ fnOut.Success
        /\ Len(fnOut.Story.Screens) = 1
        /\ PausesOf(ContentLines) = <<"None", "None", "Long", "None">>
        /\ [i \in 1..3 |-> ContentLines[i].Text] = <<cl.A, cl.B, <<"F", "i", "n", "a", "l">>>>
        /\ \A i \in 1..3 : ContentLines[i].AnimationType = "Typewriter"
        /\ ContentLines[4] = SpacerLine

\* the block A, B, Final was parsed with the default limit
ContinuationBlockSeen ==
    /\ ContinuationBlockParsed
    /\ fnIn.MaxLineLength = MaxLineLength
    /\ Len(ContentLines) = 4

SingleLineParsed ==
    /\ fnOut.op = "ParseStoryFromString"
    /\ ContentBody = <<cl.HiThere>>

\* the one Line "Hi there" (Typewriter, pause None) and the spacer after it
HiThereLines ==
    <<[Text |-> <<"H", "i", " ", "t", "h", "e", "r", "e">>,
       AnimationType |-> "Typewriter", Speed |-> "Standard",
       PauseDuration |-> "None", Effect |-> "None",
       PositionOffset |-> <<0, 0>>],
      SpacerLine>>

\* C13 as stated: whatever MaxLineLength is, a story of one screen whose
\* only content is "Hi there | typewriter" has one Screen with one text Line
\* (Typewriter, pause None) and one trailing spacer
SingleLineForEveryLimit ==
    SingleLineParsed =>
        /\ fnOut.Success
        /\ Len(fnOut.Story.Screens) = 1
        /\ ContentLines = HiThereLines

\* C13, amended: this holds when MaxLineLength is at least the length of the
\* text (8), or is zero or negative (no wrapping); below 8 the text is wrapped
\* into several Lines, all but the last with pause LineBreak
SingleLineWhenItFits ==
    SingleLineParsed =>
        /\ fnOut.Success
        /\ Len(fnOut.Story.Screens) = 1
        /\ NoWrapAt(8) => ContentLines = HiThereLines
        /\ ~NoWrapAt(8) =>
              /\ Len(ContentLines) > 2
              /\ ContentLines[Len(ContentLines)] = SpacerLine
              /\ \A i \in 1..(Len(ContentLines) - 1) :
                    /\ ContentLines[i].AnimationType = "Typewriter"
                    /\ ContentLines[i].PauseDuration =
                          IF i = Len(ContentLines) - 1 THEN "None"
                          ELSE "LineBreak"

\* "Hi there" was parsed with a limit of exactly its length
SingleLineAtItsLength ==
    /\ SingleLineParsed
    /\ fnIn.MaxLineLength = 8
    /\ Len(ContentLines) = 2

\* SplitTextByLength has returned for a limit above zero
SplitReturned ==
    /\ fnOut.op = "SplitTextByLength"
    /\ fnOut.pc = "return"
    /\ fnIn.MaxLen > 0

\* a pass of the loop is about to cut Remaining
SplitCuts ==
    /\ fnOut.op = "SplitTextByLength"
    /\ fnOut.pc = "while"
    /\ Len(fnOut.Remaining) > fnIn.MaxLen

\* the 0-based positions of Remaining the scan looks at that hold a space
ScannedSpaces ==
    {i \in 0..fnIn.MaxLen :
        i < Len(fnOut.Remaining) /\ fnOut.Remaining[i + 1] = " "}

\* C14: for a limit above zero no returned segment is longer than the limit;
\* every cut is at a space at or before the limit with no later space up to
\* the limit, when the scanned range has a space, and exactly at the limit
\* when it has none; the loop ends for every input, with the segments the
\* parser's SplitTextByLength gives
SplitObeysLimitAndEnds ==
    /\ [](SplitReturned =>
            /\ \A i \in DOMAIN fnOut.Result :
                  Len(fnOut.Result[i]) <= fnIn.MaxLen
            /\ fnOut.Result = SplitTextByLength(fnIn.Text, fnIn.MaxLen))
    /\ [][SplitCuts =>
            /\ fnOut'.pc = "while"
            /\ Len(fnOut'.Result) = Len(fnOut.Result) + 1
            /\ Len(fnOut'.Remaining) < Len(fnOut.Remaining)
            /\ IF ScannedSpaces # {}
               THEN /\ fnOut'.SplitIndex \in ScannedSpaces
                    /\ \A j \in ScannedSpaces : j <= fnOut'.SplitIndex
               ELSE fnOut'.SplitIndex = fnIn.MaxLen]_vars
    /\ <>(fnOut.op = "SplitTextByLength" /\ fnOut.pc = "return")

\* a text was cut at a space and, in the next pass, in the middle of a word
SplitCutBothWays ==
    /\ SplitReturned
    /\ fnIn.Text = <<"a", " ", "b", "a", "b", "a">>
    /\ fnIn.MaxLen = 3
    /\ fnOut.Result = <<<<"a">>, <<"b", "a", "b">>, <<"a">>>>

\* the segments joined with single spaces
RECURSIVE JoinWithSpaces(_)
JoinWithSpaces(Segments) ==
    IF Segments = <<>> THEN <<>>
    ELSE IF Len(Segments) = 1 THEN Segments[1]
    ELSE Segments[1] \o <<" ">> \o JoinWithSpaces(Tail(Segments))

\* whitespace normalization: runs of spaces collapsed to one space, then
\* trimmed
RECURSIVE CollapseSpaces(_)
CollapseSpaces(s) ==
    IF Len(s) < 2 THEN s
    ELSE IF s[1] = " " /\ s[2] = " " THEN CollapseSpaces(Tail(s))
    ELSE <<s[1]>> \o CollapseSpaces(Tail(s))

NormalizeSpaces(s) == TrimStartAndEnd(CollapseSpaces(s))

\* the text without its spaces
WithoutSpaces(s) == SelectSeq(s, LAMBDA c : c # " ")

\* the length of the longest run of letters of the text
LongestWord(s) ==
    LET runs == {<<i, j>> \in (1..Len(s)) \X (1..Len(s)) :
                    i <= j /\ \A k \in i..j : s[k] # " "}
    IN  IF runs = {} THEN 0
        ELSE LET r == CHOOSE r \in runs :
                          \A q \in runs : q[2] - q[1] <= r[2] - r[1]
             IN  r[2] - r[1] + 1

LooksUp(t) ==
    /\ threads[t].pc = "locked"
    /\ threads[t].op \in {"IsStoryCached", "LoadStory"}

\* C16: the cache lookup a thread makes right after its ClearAllCachedStories
\* misses, when the other threads have made no call since the map was
\* emptied: what they do is finish the calls they were in, a LoadStory that
\* started before the clear and has not stored its story included
ClearAllThenLookupMisses ==
    [][\A t \in DOMAIN threads :
          (/\ LooksUp(t)
           /\ threads[t].prev = "ClearAllCachedStories"
           /\ \A u \in DOMAIN threads \ {t} : threads[u].bBeforeClear
           /\ threads'[t] # threads[t])
            => threads[t].StoryFileName \notin DOMAIN CachedStories]_vars

\* every access to CachedStories is made by the thread that holds CacheMutex
CacheAccessHoldsMutex ==
    \A t \in DOMAIN threads :
        threads[t].pc \in {"locked", "add"} => CacheMutex = t

\* the thread is in a LoadStory, past a cache check that missed and before
\* the Add of the story it parsed
BetweenCheckAndAdd(t) ==
    /\ threads[t].op = "LoadStory"
    /\ ~threads[t].bForceReload
    /\ threads[t].pc \in {"parse", "lockAdd", "add"}

\* C17: every access to the cache map holds the one cache mutex, and the
\* cache check of a LoadStory and its later insert are one critical section
\* for a concurrent clear: no entry leaves the map between the two
CacheCheckAndAddAreOneSection ==
    /\ []CacheAccessHoldsMutex
    /\ [][\A t \in DOMAIN threads :
             (BetweenCheckAndAdd(t) /\ threads'[t] = threads[t])
                => DOMAIN CachedStories \subseteq DOMAIN CachedStories']_vars

\* the map with the entry of StoryFileName set to Story
WithEntry(Cache, StoryFileName, Story) ==
    [k \in DOMAIN Cache \cup {StoryFileName} |->
        IF k = StoryFileName THEN Story ELSE Cache[k]]

\* C18: a LoadStory that is not forced, on a cached name, returns the cached
\* story with success, without a parse and without a change of the cache; a
\* forced LoadStory returns what the parser gives whatever the cache holds,
\* and on success stores it under the name, so that the load that follows,
\* not forced, returns the newly parsed story
ForcedReloadBypassesCache ==
    [][\A name \in StoryFileNames \ {""}, bForceReload \in BOOLEAN :
          LoadStoryCall(name, bForceReload) =>
             /\ (~bForceReload /\ name \in DOMAIN CachedStories) =>
                   /\ lastCall'.ret
                   /\ lastCall'.Story = CachedStories[name]
                   /\ lastCall'.Log = <<"LoadStory: Loading from cache">>
                   /\ CachedStories' = CachedStories
             /\ bForceReload =>
                   /\ lastCall'.ret = ParsedFiles[name].Success
                   /\ lastCall'.Log \in {<<"LoadStory: Parsed">>,
                                         <<"LoadStory: Failed to parse">>}
                   /\ lastCall'.ret =>
                         /\ lastCall'.Story = ParsedFiles[name].Story
                         /\ CachedStories' =
                               WithEntry(CachedStories, name,
                                         ParsedFiles[name].Story)
                         /\ LoadStory(name, FALSE)'.Story
                               = ParsedFiles[name].Story
                   /\ ~lastCall'.ret => CachedStories' = CachedStories]_vars

\* a forced LoadStory of a.tos has replaced the entry of the file's earlier
\* content by the story parsed now, next to an entry that is still the old one
StaleEntryReplaced ==
    /\ lastCall.op = "LoadStory"
    /\ lastCall.bForceReload
    /\ lastCall.StoryFileName = "a.tos"
    /\ lastCall.ret
    /\ CachedStories["a.tos"] = lastCall.Story
    /\ Len(lastCall.Story.Screens) = 4
    /\ "gone.tos" \in DOMAIN CachedStories

\* the BlockDuration of the built-in profile and of every profile loaded
FallbackBlockDurations ==
    {DefaultTiming.BlockDuration}
        \cup {SpeedTimings[sp].BlockDuration : sp \in DOMAIN SpeedTimings}

\* C19: when a timing table was unavailable at load, nothing is served in
\* its place: the duration of a block line whose speed has no table is
\* neither the built-in BlockDuration nor that of another speed, and without
\* the global table the transition pause, the fade window and the line-break
\* fraction are not the built-in ones
MissingTableServesNoDefault ==
    /\ (/\ fnOut.op = "CalculateLineDuration"
        /\ fnIn.Line.AnimationType # "Typewriter"
        /\ fnIn.Line.Speed \notin DOMAIN SpeedTimings)
          => fnOut.Duration \notin FallbackBlockDurations
    /\ DOMAIN SpeedTimings = {} =>
          /\ ScreenTransitionPauseSeconds # DefaultConfig.ScreenTransitionPauseSeconds
          /\ FadeWindowSeconds # DefaultConfig.FadeWindowSeconds
          /\ LineBreakPercent # DefaultConfig.LineBreakPercent

\* the finisher lines "Go | typewriter | <field>" whose third field is an
\* unknown key, an unknown speed, pause or effect, a malformed offset, or no
\* key=value at all
BadFieldLines ==
    {cl.BadKey, cl.BadSpeed, cl.BadPause, cl.BadEffect, cl.BadOffset,
     cl.BadShape}

\* the finisher line is accepted: its Line with the defaults for the bad
\* field, and the spacer
GoLineAccepted ==
    /\ fnOut.Success
    /\ Len(fnOut.Story.Screens) = 1
    /\ ContentLines =
          <<[Text |-> <<"G", "o">>, AnimationType |-> "Typewriter",
             Speed |-> "Standard", PauseDuration |-> "None",
             Effect |-> "None", PositionOffset |-> <<0, 0>>],
            SpacerLine>>

\* C20: a finisher line with a valid text and animation whose later field
\* is bad adds a diagnostic to the list ParseStoryFromString returns, and is
\* still accepted
BadFieldIsDiagnosed ==
    (/\ fnOut.op = "ParseStoryFromString"
     /\ Len(ContentBody) = 1
     /\ ContentBody[1] \in BadFieldLines
     /\ NoWrapAt(2))
        => /\ fnOut.Errors # <<>>
           /\ GoLineAccepted

\* such a line is accepted in every case
BadFieldLineIsAccepted ==
    (/\ fnOut.op = "ParseStoryFromString"
     /\ Len(ContentBody) = 1
     /\ ContentBody[1] \in BadFieldLines
     /\ NoWrapAt(2))
        => GoLineAccepted


\* ---- C21 ----
CacheCalls == {"ClearCachedStory", "ClearAllCachedStories", "LoadStory"}

\* C21: while a story plays, a call of ClearCachedStory, of
\* ClearAllCachedStories or of LoadStory (forced or not, for any key, the
\* playing story's included) leaves the player's copy of the story and every
\* playback variable as they were
CacheCallsLeavePlaybackAlone ==
    [][(bIsPlaying /\ lastCall'.op \in CacheCalls) => UNCHANGED playerVars]_vars

\* the playing story's cache entry was removed on its second screen
PlayingStoryUncached ==
    /\ bIsPlaying
    /\ CurrentScreenIndex = 1
    /\ lastCall.op \in {"ClearCachedStory", "ClearAllCachedStories"}
    /\ CurrentStory.SourceFileName \notin DOMAIN CachedStories
    /\ Len(CurrentStory.Screens) = 4

\* ---- C22 ----
\* a step in which AdvanceToNextScreen puts the player on a further screen:
\* from Tick (end of a screen, or an empty screen passed over) or from
\* DebugSkipToNextScreen
EntersTransition ==
    /\ lastCall'.op \in {"Tick", "DebugSkipToNextScreen"}
    /\ CurrentState' = "TransitioningScreen"
    /\ \/ CurrentState # "TransitioningScreen"
       \/ CurrentScreenIndex' # CurrentScreenIndex

\* C22: every entry into TransitioningScreen made by AdvanceToNextScreen
\* starts with the transition timer at zero, the second and later ones too
TransitionStartsAtZero ==
    [][EntersTransition => TransitionElapsedTime' = 0]_vars

\* ---- C23 ----
\* C23: right after StartStory returned true, from whatever state it was
\* called in, the screen cursor and the four elapsed counters are zero, no
\* timed event is marked fired, the player is not paused, LineStartTimes has
\* one entry per line of the first screen, those after the first line or
\* block being -1, and the state is PlayingLine
StartStoryResetsPlayback ==
    (lastCall.op = "StartStory" /\ lastCall.ret) =>
        /\ CurrentScreenIndex = 0
        /\ ScreenElapsedTime = 0
        /\ LineElapsedTime = 0
        /\ PauseElapsedTime = 0
        /\ TransitionElapsedTime = 0
        /\ ProcessedTimedEventIndices = {}
        /\ ~bIsPaused
        /\ Len(LineStartTimes) = Len(CurrentStory.Screens[1].Lines)
        /\ \A i \in CurrentLineIndex + 2 .. Len(LineStartTimes) :
               LineStartTimes[i] = NotStarted
        /\ CurrentState = "PlayingLine"

\* ---- C24 ----
\* the state changes a Tick may make, and the one it may make without
\* changing the state's name: from an empty screen's transition to the next
TickMoves ==
    { <<"PlayingLine", "PausingAfterLine">>,
      <<"PausingAfterLine", "PlayingLine">>,
      <<"PausingAfterLine", "TransitioningScreen">>,
      <<"PausingAfterLine", "Completed">>,
      <<"TransitioningScreen", "PlayingLine">>,
      <<"TransitioningScreen", "TransitioningScreen">>,
      <<"TransitioningScreen", "Completed">> }

\* C24: a Tick changes the playback state only along PlayingLine ->
\* PausingAfterLine, PausingAfterLine -> PlayingLine, TransitioningScreen or
\* Completed, TransitioningScreen -> PlayingLine, TransitioningScreen of the
\* next screen or Completed; the state becomes Idle only in StopStory and
\* stops being Idle only in a StartStory that returns true
TickFollowsStateMachine ==
    [][/\ (lastCall'.op = "Tick" /\ CurrentState' # CurrentState)
              => <<CurrentState, CurrentState'>> \in TickMoves
       /\ (lastCall'.op = "Tick" /\ CurrentScreenIndex' # CurrentScreenIndex)
              => /\ CurrentScreenIndex' = CurrentScreenIndex + 1
                 /\ CurrentState \in {"PausingAfterLine", "TransitioningScreen"}
                 /\ CurrentState' \in {"TransitioningScreen", "Completed"}
       /\ (CurrentState # "Idle" /\ CurrentState' = "Idle")
              => lastCall'.op = "StopStory"
       /\ (CurrentState = "Idle" /\ CurrentState' # "Idle")
              => (lastCall'.op = "StartStory" /\ lastCall'.ret)]_vars

\* a Tick has passed over the empty third screen into the transition of the
\* fourth
TickPassedEmptyScreen ==
    /\ lastCall.op = "Tick"
    /\ CurrentState = "TransitioningScreen"
    /\ ~bIsPaused
    /\ CurrentScreenIndex = 3
    /\ ScreenElapsedTime = 0

\* ---- C25 ----
\* the player after a Tick of DeltaTime taken from st (not paused)
TickOutcome(st, DeltaTime) ==
    TickStep(ProcessTimedEvents(
                 [st EXCEPT !.ScreenElapsedTime = @ + DeltaTime]).st,
             DeltaTime)

\* the step leaves the player's observable playback state as it is in t
StepEndsAs(t) ==
    /\ CurrentState' = t.CurrentState
    /\ CurrentScreenIndex' = t.CurrentScreenIndex
    /\ CurrentLineIndex' = t.CurrentLineIndex
    /\ ScreenElapsedTime' = t.ScreenElapsedTime
    /\ LineElapsedTime' = t.LineElapsedTime
    /\ PauseElapsedTime' = t.PauseElapsedTime
    /\ PauseDuration' = t.PauseDuration
    /\ LineStartTimes' = t.LineStartTimes
    /\ ProcessedTimedEventIndices' = t.ProcessedTimedEventIndices

\* C25: DebugSkipCurrentLine called while a line plays leaves the player as
\* a Tick of the line's remaining time, taken from the same state, would:
\* same state, cursors, screen-, line- and pause-elapsed time, pause
\* duration, LineStartTimes and set of fired timed events
SkipLineIsNaturalCompletion ==
    [][(/\ lastCall'.op = "DebugSkipCurrentLine"
        /\ bIsPlaying /\ ~bIsPaused
        /\ CurrentState = "PlayingLine")
           => StepEndsAs(TickOutcome(Player, LineDuration - LineElapsedTime))]_vars

\* ---- C26 ----
BlockAnimations == {"Paragraph", "TopDown"}

\* StartLine has just started the line under the cursor as a single line
SingleLineStarted ==
    /\ bIsPlaying
    /\ CurrentState = "PlayingLine"
    /\ LineElapsedTime = 0
    /\ GetCurrentLine(Player).AnimationType \notin BlockAnimations

\* C26: a line started as a single line (Typewriter, LeftToRight, WordRain
\* or Snake) plays for CalculateLineDuration of that line, the duration
\* GetCurrentScreenState measures its progress against, and its start time
\* is the screen time at which it was started
SingleLinePlaysItsDuration ==
    SingleLineStarted =>
        /\ LineDuration = CalculateLineDuration(GetCurrentLine(Player))
        /\ LineStartTimes[CurrentLineIndex + 1] = ScreenElapsedTime

\* ---- C27 ----
\* the index StartLine is called with in this step (StartStory and
\* OnScreenTransitionComplete pass 0, AdvanceToNextLineOrScreen the line
\* after the cursor), if the step is one of those
StartedIndex ==
    IF lastCall'.op = "Tick" /\ CurrentState = "PausingAfterLine"
    THEN CurrentLineIndex + 1 ELSE 0

StartsLine ==
    /\ CurrentState' = "PlayingLine"
    /\ \/ lastCall'.op = "StartStory" /\ lastCall'.ret
       \/ /\ lastCall'.op = "Tick"
          /\ bIsPlaying /\ ~bIsPaused
          /\ CurrentState \in {"PausingAfterLine", "TransitioningScreen"}

\* the largest j with lines index..j (0-based) all of the kind of line index
BlockEndOf(Lines, index) ==
    LET Same(j) ==
            \A i \in index .. j :
                Lines[i + 1].AnimationType = Lines[index + 1].AnimationType
        Ends == {j \in index .. Len(Lines) - 1 : Same(j)}
    IN  CHOOSE j \in Ends : \A k \in Ends : k <= j

\* the block [index, blockEnd] is started in this step
BlockStarted(Lines, index, blockEnd) ==
    /\ \A i \in index .. blockEnd :
           LineStartTimes'[i + 1] =
               IF Lines[index + 1].AnimationType = "TopDown"
               THEN ScreenElapsedTime' + (i - index) * CascadeDelay
               ELSE ScreenElapsedTime'
    /\ \A i \in blockEnd + 1 .. Len(Lines) - 1 :
           LineStartTimes'[i + 1] = NotStarted
    /\ CurrentLineIndex' = blockEnd

\* C27: StartLine(index) on a Paragraph or TopDown line starts the lines
\* index..blockEnd, blockEnd the end of the longest run of lines of that
\* kind from index: line i at screen-elapsed + (i - index) * 0.2 s for
\* TopDown, every line at screen-elapsed for Paragraph; later lines stay at
\* -1; the cursor is at blockEnd, and the pause after the block is that of
\* line blockEnd
BlockRunsToItsLastLine ==
    [][/\ (/\ StartsLine
           /\ ScreenAt(Player)'.Lines[StartedIndex + 1].AnimationType
                  \in BlockAnimations)
              => BlockStarted(ScreenAt(Player)'.Lines, StartedIndex,
                              BlockEndOf(ScreenAt(Player)'.Lines, StartedIndex))
       /\ (/\ bIsPlaying
           /\ CurrentState = "PlayingLine"
           /\ CurrentState' = "PausingAfterLine"
           /\ GetCurrentLine(Player).AnimationType \in BlockAnimations)
              => /\ CurrentLineIndex' = CurrentLineIndex
                 /\ PauseDuration' =
                        GetPauseDuration(
                            ScreenAt(Player).Lines[CurrentLineIndex + 1]
                                .PauseDuration)]_vars

\* the Paragraph block in the middle of the fourth screen (lines 2 and 3,
\* after the Snake line and its spacer) has played and pauses as its last
\* line asks
ParagraphBlockPlayed ==
    /\ CurrentScreenIndex = 3
    /\ CurrentState = "PausingAfterLine"
    /\ CurrentLineIndex = 3
    /\ LineStartTimes[1] >= 0
    /\ LineStartTimes[3] = LineStartTimes[4]
    /\ LineStartTimes[3] > LineStartTimes[1]
    /\ LineStartTimes[5] = NotStarted
    /\ PauseDuration = PauseDurations["Long"]

\* ---- C28 ----
\* st with the screen under its cursor taken out of the story
WithoutCurrentScreen(st) ==
    LET Screens == st.CurrentStory.Screens
        k == st.CurrentScreenIndex + 1
        Rest == SubSeq(Screens, 1, k - 1) \o SubSeq(Screens, k + 1, Len(Screens))
    IN  [st EXCEPT !.CurrentStory.Screens = Rest,
                   !.LineStartTimes = InitStartTimes(Len(Rest[k].Lines))]

\* the tick time, in Ticks of DeltaTime, a player in st stays in
\* TransitioningScreen
RECURSIVE TransitionTime(_, _)
TransitionTime(st, DeltaTime) ==
    IF st.CurrentState # "TransitioningScreen" THEN 0
    ELSE DeltaTime + TransitionTime(TickOutcome(st, DeltaTime), DeltaTime)

\* the Tick that ended the previous screen has just put the player on a
\* screen without lines that another screen follows
OnEmptyScreen ==
    /\ lastCall.op = "Tick"
    /\ bIsPlaying /\ ~bIsPaused
    /\ CurrentState = "TransitioningScreen"
    /\ ScreenElapsedTime = 0
    /\ CurrentScreenIndex > 0
    /\ CurrentScreenIndex + 1 < Len(CurrentStory.Screens)
    /\ Len(ScreenAt(Player).Lines) = 0

\* C28: a screen without lines costs no time: from the moment the previous
\* screen is left, the first line of the next screen with lines starts (or
\* the story completes) after the same tick time as in the story without
\* the empty screen
EmptyScreenCostsNoTime ==
    OnEmptyScreen =>
        \A DeltaTime \in DeltaTimes :
            TransitionTime(Player, DeltaTime) =
                TransitionTime(WithoutCurrentScreen(Player), DeltaTime)

\* what does hold of a screen without lines: under Tick no line plays or
\* pauses on it, and the Tick that completes its transition moves to the
\* next screen
EmptyScreenIsPassed ==
    [][/\ (lastCall'.op = "Tick" /\ CurrentScreenIndex' < Len(CurrentStory'.Screens)
             /\ Len(ScreenAt(Player)'.Lines) = 0)
              => CurrentState' = "TransitioningScreen"
       /\ (/\ lastCall'.op = "Tick"
           /\ bIsPlaying /\ ~bIsPaused
           /\ CurrentState = "TransitioningScreen"
           /\ Len(ScreenAt(Player).Lines) = 0
           /\ TransitionElapsedTime' >= ScreenTransitionPauseSeconds)
              => CurrentScreenIndex' = CurrentScreenIndex + 1]_vars

\* ---- C29 ----
\* C29: for a non-empty text, GetCharacterIndexAtTime gives the length of
\* the text only at times that have reached CalculateTypewriterDuration of
\* the text: at every earlier time the index is below the length
FullIndexOnlyFromDuration ==
    (/\ fnOut.op = "GetCharacterIndexAtTime"
     /\ fnIn.Text # <<>>
     /\ fnIn.Time < CalculateTypewriterDuration(fnIn.Text, fnIn.Speed))
        => fnOut.Index < Len(fnIn.Text)

\* ---- C30 ----
\* the continuation lines of the catalogue
PlainLines == {cl.A, cl.B, cl.Hi}

IsPlainLine(Line) == Line \in PlainLines

\* the finisher lines of the catalogue that ParseLineAttributes accepts
FinisherLines == BadFieldLines \cup {cl.Final, cl.HiThere, cl.Styled}

\* the text and attributes each of them asks for
FinisherAsks(Line) ==
    CASE Line = cl.Final ->
           [DefaultLine EXCEPT !.Text = <<"F", "i", "n", "a", "l">>,
                               !.PauseDuration = "Long"]
      [] Line = cl.HiThere -> [DefaultLine EXCEPT !.Text = cl.Hi]
      [] Line = cl.Styled ->
           [Text |-> <<"Z", " ", "y">>, AnimationType |-> "TopDown",
            Speed |-> "Fast", PauseDuration |-> "Long", Effect |-> "ShakeLow",
            PositionOffset |-> <<100, 200>>]
      [] OTHER -> [DefaultLine EXCEPT !.Text = <<"G", "o">>]

\* the Lines of one text: its segments at the limit of the call, in the
\* style of f, the last with the pause Pause and the others with LineBreak
LinesOfText(Text, f, Pause) ==
    LET Of(Segments) ==
            [i \in 1..Len(Segments) |->
                [f EXCEPT !.Text = Segments[i],
                          !.PauseDuration =
                              IF i = Len(Segments) THEN Pause ELSE "LineBreak"]]
    IN  Of(SplitTextByLength(Text, fnIn.MaxLineLength))

RECURSIVE LinesOfContinuations(_, _)
LinesOfContinuations(Buffer, f) ==
    IF Buffer = <<>> THEN <<>>
    ELSE LinesOfText(Head(Buffer), f, "None")
             \o LinesOfContinuations(Tail(Buffer), f)

\* the content lines before the last one
ContentFront == SubSeq(ContentBody, 1, Len(ContentBody) - 1)

ContentLast == ContentBody[Len(ContentBody)]

HasDiagnostic(LineNumber, Msg) ==
    \E k \in DOMAIN fnOut.Errors : fnOut.Errors[k] = Diag(LineNumber, Msg)

\* continuation lines, among them perhaps finisher lines that
\* ParseLineAttributes rejects, then one more line
BlockParsed ==
    /\ fnOut.op = "ParseStoryFromString"
    /\ Len(ContentBody) >= 1
    /\ \A i \in DOMAIN ContentFront :
          ContentFront[i] \in PlainLines \cup {cl.EmptyText}

\* C30: an accepted finisher line after n buffered continuation lines
\* appends the Lines of the continuation lines in buffer order, in the
\* finisher's animation, speed, effect and offset and ending each with the
\* pause None, then the Lines of the finisher's text ending with the pause
\* asked, then one spacer, and empties the buffer; a finisher line that
\* ParseLineAttributes rejects appends nothing and leaves the buffer as it is
FinisherEmitsBlock ==
    /\ (BlockParsed /\ ContentLast \in FinisherLines) =>
          LET Of(f) ==
                  /\ ContentLines =
                         LinesOfContinuations(
                             SelectSeq(ContentFront, IsPlainLine), f)
                           \o LinesOfText(f.Text, f, f.PauseDuration)
                           \o <<SpacerLine>>
                  /\ ~HasDiagnostic(0, "End of file: Orphaned text lines found")
          IN  Of(FinisherAsks(ContentLast))
    /\ (BlockParsed /\ ContentLast = cl.EmptyText) =>
          /\ ContentLines = <<>>
          /\ HasDiagnostic(Len(fnIn.StoryText), "Empty text field")
          /\ HasDiagnostic(0, "End of file: Orphaned text lines found")
                 <=> SelectSeq(ContentFront, IsPlainLine) # <<>>

\* "Hi there", a rejected finisher and the styled finisher, wrapped at 7:
\* Hi, there, Z y and the spacer
WrappedBlockEmitted ==
    /\ fnOut.op = "ParseStoryFromString"
    /\ ContentBody = <<cl.Hi, cl.EmptyText, cl.Styled>>
    /\ fnIn.MaxLineLength = 7
    /\ Len(ContentLines) = 4
    /\ PausesOf(ContentLines) = <<"LineBreak", "None", "Long", "None">>
    /\ ContentLines[2].AnimationType = "TopDown"
    /\ ContentLines[3].Text = <<"Z", " ", "y">>

\* ---- C31 ----
\* the segments of a text "X \\ Hi there" at the limit of the call: those of
\* X, then those of "Hi there"
BrokenSegments(X) ==
    SplitTextByLength(X, fnIn.MaxLineLength)
        \o SplitTextByLength(cl.Hi, fnIn.MaxLineLength)

\* Lines 1..Len(Segments) of the screen are the segments in order, in the
\* style of f, the last with the pause Pause and the others with LineBreak
ChunkIsLines(Segments, f, Pause) ==
    /\ Len(ContentLines) > Len(Segments)
    /\ \A i \in 1..Len(Segments) :
          ContentLines[i] =
              [f EXCEPT !.Text = Segments[i],
                        !.PauseDuration =
                            IF i = Len(Segments) THEN Pause ELSE "LineBreak"]

PlayingStates == {"PlayingLine", "PausingAfterLine", "TransitioningScreen"}

\* C32: bIsPlaying is true exactly in the states PlayingLine,
\* PausingAfterLine and TransitioningScreen (false exactly in Idle and
\* Completed), and the ticker is registered exactly while bIsPlaying is true
PlayingExactlyInPlayingStates ==
    /\ bIsPlaying <=> CurrentState \in PlayingStates
    /\ ~bIsPlaying <=> CurrentState \in {"Idle", "Completed"}
    /\ TickerHandle <=> bIsPlaying

\* a Tick has played the story to its end
StoryCompletedByTick ==
    /\ lastCall.op = "Tick"
    /\ CurrentState = "Completed"
    /\ ~bIsPlaying
    /\ ~TickerHandle
    /\ CurrentScreenIndex = Len(CurrentStory.Screens)

\* ---- C33 ----
\* C33: while bIsPlaying is true the screen cursor is the index of a screen
\* of the story, LineStartTimes has one entry per line of that screen, and
\* in PlayingLine and PausingAfterLine the line cursor is the index of a
\* line of that screen
CursorsInsideStory ==
    bIsPlaying =>
        /\ 0 <= CurrentScreenIndex
        /\ CurrentScreenIndex < Len(CurrentStory.Screens)
        /\ Len(LineStartTimes) = Len(ScreenAt(Player).Lines)
        /\ CurrentState \in {"PlayingLine", "PausingAfterLine"}
              => /\ 0 <= CurrentLineIndex
                 /\ CurrentLineIndex < Len(ScreenAt(Player).Lines)

\* the last line of the last screen has played and pauses
LastLinePauses ==
    /\ bIsPlaying
    /\ CurrentScreenIndex = Len(CurrentStory.Screens) - 1
    /\ CurrentState = "PausingAfterLine"
    /\ CurrentLineIndex = Len(ScreenAt(Player).Lines) - 1
    /\ Len(LineStartTimes) = 5

\* ---- C34 ----
\* C34: in PlayingLine and PausingAfterLine the lines of the current screen
\* up to the line cursor have a start time of 0 or more and the lines after
\* it the start time -1; in TransitioningScreen every start time is -1 and
\* the line cursor is 0
StartedExactlyUpToCursor ==
    /\ CurrentState \in {"PlayingLine", "PausingAfterLine"}
          => \A i \in 0 .. Len(LineStartTimes) - 1 :
                IF i <= CurrentLineIndex
                THEN LineStartTimes[i + 1] >= 0
                ELSE LineStartTimes[i + 1] = NotStarted
    /\ CurrentState = "TransitioningScreen"
          => /\ \A i \in DOMAIN LineStartTimes : LineStartTimes[i] = NotStarted
             /\ CurrentLineIndex = 0

\* the second line of the last screen plays: two lines started, three not
SecondLinePlays ==
    /\ CurrentState = "PlayingLine"
    /\ CurrentScreenIndex = 3
    /\ CurrentLineIndex = 1
    /\ LineStartTimes[2] > LineStartTimes[1]
    /\ LineStartTimes[3] = NotStarted
    /\ Len(LineStartTimes) = 5

\* ---- C35 ----
\* the timed events of the current screen whose StartTime has been reached
DueTimedEvents(st) ==
    {i \in 0 .. Len(ScreenAt(st).TimedEvents) - 1 :
         ScreenAt(st).TimedEvents[i + 1].StartTime <= st.ScreenElapsedTime}

TickMovesForward ==
    (lastCall'.op = "Tick" /\ bIsPlaying)
        => /\ CurrentScreenIndex' >= CurrentScreenIndex
           /\ CurrentScreenIndex' = CurrentScreenIndex
                 => CurrentLineIndex' >= CurrentLineIndex

\* C36: after a successful StartStory followed only by unpaused Ticks of at
\* least 0.2 s, the playback reaches Completed with bIsPlaying false after
\* finitely many Ticks, and no Tick moves the screen index back or, within a
\* screen, the line cursor back
TicksCompleteTheStory ==
    /\ (lastCall.op = "StartStory" /\ lastCall.ret)
           ~> (CurrentState = "Completed" /\ ~bIsPlaying)
    /\ [][TickMovesForward]_vars

\* the ticker alone has taken the story from its start past its last screen
TickedToTheEnd ==
    /\ CurrentState = "Completed"
    /\ ~bIsPlaying
    /\ ~TickerHandle
    /\ CurrentScreenIndex = 4
    /\ NumScreens(Player) = 4
    /\ CurrentLineIndex = 5

\* ---- C37 ----
\* this step is a Tick on a playing, unpaused player
UnpausedTick == lastCall'.op = "Tick" /\ bIsPlaying /\ ~bIsPaused

\* the cursor stays, or moves to the next line, or to the end of the block
\* that the next line (the first line, after a transition) begins
OneLineOrBlock ==
    LET Lines == ScreenAt(Player).Lines
        Next1 == IF CurrentState = "TransitioningScreen"
                 THEN 0 ELSE CurrentLineIndex + 1
    IN  \/ CurrentLineIndex' = CurrentLineIndex
        \/ CurrentLineIndex' = CurrentLineIndex + 1
        \/ /\ Next1 < Len(Lines)
           /\ Lines[Next1 + 1].AnimationType \in BlockAnimations
           /\ CurrentLineIndex' = BlockEndOf(Lines, Next1)

\* one step of the state machine: one change of state at most, the screen
\* index 0 or 1 higher, on the same screen the cursor one line or block on
TickStepsOnce ==
    /\ CurrentState = "PlayingLine"
          => /\ CurrentState' \in {"PlayingLine", "PausingAfterLine"}
             /\ CurrentLineIndex' = CurrentLineIndex
             /\ CurrentScreenIndex' = CurrentScreenIndex
    /\ CurrentState = "PausingAfterLine"
          => CurrentState' \in {"PausingAfterLine", "PlayingLine",
                                "TransitioningScreen", "Completed"}
    /\ CurrentState = "TransitioningScreen"
          => CurrentState' \in {"TransitioningScreen", "PlayingLine",
                                "Completed"}
    /\ CurrentScreenIndex' \in {CurrentScreenIndex, CurrentScreenIndex + 1}
    /\ CurrentScreenIndex' = CurrentScreenIndex => OneLineOrBlock
    /\ \/ ScreenElapsedTime' = 0
       \/ \E DeltaTime \in LiveDeltaTimes :
              ScreenElapsedTime' = ScreenElapsedTime + DeltaTime

\* the timer of the line, pause or transition a Tick enters starts at 0
TickEntersAtZero ==
    /\ (CurrentState # "PlayingLine" /\ CurrentState' = "PlayingLine")
          => LineElapsedTime' = 0
    /\ (CurrentState # "PausingAfterLine" /\ CurrentState' = "PausingAfterLine")
          => PauseElapsedTime' = 0
    /\ (CurrentState' = "TransitioningScreen"
           /\ CurrentScreenIndex' # CurrentScreenIndex)
          => TransitionElapsedTime' = 0

\* C37: a Tick performs at most one step of the state machine however large
\* DeltaTime is, and the line, pause or transition it enters starts with its
\* timer at 0: the time past the threshold goes into screen-elapsed only
TickIsOneFreshStep ==
    [][UnpausedTick => (TickStepsOnce /\ TickEntersAtZero)]_vars

\* the first half of C37 alone
TickIsOneStep == [][UnpausedTick => TickStepsOnce]_vars

\* ---- C38 ----
\* the terminator lines of the catalogue that ParseLineAttributes accepts,
\* and the pause each asks for
AcceptedLines == FinisherLines \cup {cl.BrokenFinal, cl.SpacerFinal}

IsAcceptedLine(Line) == Line \in AcceptedLines

AskedPause(Line) ==
    CASE Line = cl.BrokenFinal -> "Short"
      [] Line = cl.SpacerFinal -> "Long"
      [] OTHER -> FinisherAsks(Line).PauseDuration

\* the positions of the spacers among the Lines of the screen, and the k-th
\* of them (the catalogue has no [SPACER] line, so the k-th spacer is the
\* one appended for the k-th accepted terminator line)
SpacerPositions == {i \in DOMAIN ContentLines : ContentLines[i].Text = <<" ">>}

SpacerPosition(k) ==
    CHOOSE p \in SpacerPositions :
        Cardinality({q \in SpacerPositions : q < p}) = k - 1

\* every Line has a text, no longer than the limit
ParsedLinesFit ==
    (fnOut.op = "ParseStoryFromString" /\ fnIn.MaxLineLength > 0)
        => \A i \in DOMAIN ContentLines :
              /\ ContentLines[i].Text # <<>>
              /\ Len(ContentLines[i].Text) <= fnIn.MaxLineLength

\* before the spacer of every accepted terminator line stands a text Line
\* with the pause the terminator asks for
TerminatorsKeepTheirPause ==
    (fnOut.op = "ParseStoryFromString" /\ fnIn.MaxLineLength > 0)
        => LET Accepted == SelectSeq(ContentBody, IsAcceptedLine)
           IN  /\ Cardinality(SpacerPositions) = Len(Accepted)
               /\ \A k \in DOMAIN Accepted :
                     /\ SpacerPosition(k) > 1
                     /\ ContentLines[SpacerPosition(k) - 1].Text # <<" ">>
                     /\ ContentLines[SpacerPosition(k) - 1].PauseDuration
                            = AskedPause(Accepted[k])

\* C38: for a limit above 0, every Line of the parsed screen has a
\* non-empty Text no longer than the limit, and every accepted terminator
\* line contributes at least one text Line, the last of them with the pause
\* it asks for, before its spacer
ParsedLinesFitAndFinish == ParsedLinesFit /\ TerminatorsKeepTheirPause

\* the same for the terminator lines whose text is not the spacer token
FinishersWithTextKeepTheirPause ==
    (\A i \in DOMAIN ContentBody : ContentBody[i] # cl.SpacerFinal)
        => TerminatorsKeepTheirPause

\* ---- C39 ----
\* C39: a LoadStory call that returns bSuccess false, forced or not, leaves
\* CachedStories as it was: no entry added, removed or replaced
FailedLoadKeepsCache ==
    [][(lastCall'.op = "LoadStory" /\ ~lastCall'.ret)
          => CachedStories' = CachedStories]_vars

\* a forced reload of a file that no longer parses has failed, and the entry
\* cached under its name is still there
FailedReloadKeptEntry ==
    /\ lastCall.op = "LoadStory"
    /\ ~lastCall.ret
    /\ lastCall.bForceReload
    /\ lastCall.StoryFileName = "bad.tos"
    /\ "bad.tos" \in DOMAIN CachedStories

\* ---- C40 ----
\* this step is a DebugSkipToNextScreen that does not refuse
SkipsToNextScreen ==
    /\ lastCall'.op = "DebugSkipToNextScreen"
    /\ bIsPlaying
    /\ CurrentScreenIndex < NumScreens(Player) - 1

\* the step ends in the state DebugJumpToScreen(CurrentScreenIndex + 1)
\* would have ended in
EndsAsJumpToNext == Player' = EnterScreen(Player, CurrentScreenIndex + 1)

\* C40: from a playing state on a screen that is not the last,
\* DebugSkipToNextScreen ends in the player state in which
\* DebugJumpToScreen(s + 1) ends
SkipToNextIsJumpToNext == [][SkipsToNextScreen => EndsAsJumpToNext]_vars

\* the part of the reset the two share: everything but the three timers
\* AdvanceToNextScreen leaves alone
EndsAsJumpButTimers ==
    [][SkipsToNextScreen =>
          [Player EXCEPT !.LineElapsedTime = 0, !.PauseElapsedTime = 0,
                         !.TransitionElapsedTime = 0]'
              = EnterScreen(Player, CurrentScreenIndex + 1)]_vars

=============================================================================
